---- MODULE Spec2Model ----
(***************************************************************************)
(* Markdown-Keeper: the persistent event queue of the watcher              *)
(* (watcher/service.py) and the document store with its query cache        *)
(* (storage/repository.py), as state machines over the SQLite tables.      *)
(*                                                                         *)
(* Spec       the watcher process: enqueue, drain (one action per step of  *)
(*            a drain), the clock, a process stop followed by a restart.   *)
(* SpecRepo   the repository API called directly: upsert, delete,          *)
(*            semantic search, embedding regeneration, the clock.          *)
(* SpecStore  upsert_document statement by statement in its transaction    *)
(*            (it may raise at every statement) and delete_document_by_path*)
(*            over the documents table and its child tables.               *)
(* SpecPush   watch_loop_watchdog line by line, with the callbacks of the  *)
(*            observer thread running between its lines.                   *)
(* SpecLinks  validate_links over the links the upserts stored, with files *)
(*            written and removed on disk between the calls.               *)
(* SpecApi    the POST handler of the API server over the documents the    *)
(*            repository holds.                                            *)
(* SpecDaemon start, stop, status and restart of daemon.py over the pid    *)
(*            file and the processes of the host.                          *)
(* SpecPoll   watch_once of the polling mode: snapshot, enqueue, drain,    *)
(*            with files written and removed between the steps.            *)
(* SpecLimit  semantic search called with any limit, negative included.    *)
(* SpecRace   semantic search in a reader thread beside a writer thread    *)
(*            that upserts and deletes.                                    *)
(* SpecBench  benchmark_semantic_queries: the timed calls and the report.  *)
(* SpecGet    get_document statement by statement beside upserts.          *)
(* SpecStart  start_background step by step, called by two processes.      *)
(* SpecHandler the callbacks of the push-mode event handler.               *)
(* SpecOnePath enqueues and drains of the events of one path, up to the    *)
(*            failure of an event.                                         *)
(***************************************************************************)
EXTENDS Integers, Sequences, FiniteSets, TLC

VARIABLES
    events,        \* table events: sequence of rows, the id of a row is its index
    now,           \* the UTC clock read by _utc_now_iso
    pc,            \* position of the watcher process
    queued,        \* _drain_event_queue: the fetched batch (local)
    pos,           \* _drain_event_queue: index in the batch of the row in progress
    exc,           \* _drain_event_queue: the exception the action raised, or NULL
    result,        \* _drain_event_queue: the WatchRunResult being built
    files,         \* the paths that are regular files on disk
    documents,     \* table documents with its child relations: set of rows
    next_doc_id,   \* AUTOINCREMENT counter of documents
    query_cache,   \* table query_cache: set of rows
    ret,           \* the last call made directly and what it returned, or the
                   \* locals of the calls in progress
    runs,          \* history: per event id, how many times its action was started
    served,        \* history: ids whose action was started in the current drain
    stop_pending,  \* history: ids that were queued or processing at the last stop
    db,            \* SpecStore: the committed tables of documents and their children
    tx,            \* SpecStore: the tables as the open transaction sees them, or NoTx
    upc,           \* SpecStore: position of the running upsert_document call
    call,          \* SpecStore: arguments and locals of the running upsert_document call
    handler,       \* SpecPush: the sets changed and deleted of the event handler
    wpc,           \* SpecPush: position of watch_loop_watchdog
    pending,       \* SpecPush: _flush_pending_events: pending_delete, pending_change
    observer,      \* SpecPush: the observer thread and the callback it is running
    total,         \* SpecPush: the WatchRunResult watch_loop_watchdog adds up
    flushes,       \* SpecPush: how many times the loop has slept
    recorded,      \* history: paths the handler recorded
    enqueued,      \* history: paths handed to _queue_events
    daemon,        \* SpecDaemon: the pid file and the processes of the host
    watch,         \* SpecPoll: snapshot of watch_loop and the locals of watch_once
    mtimes         \* SpecPoll: st_mtime of the files on disk

vars == <<events, now, pc, queued, pos, exc, result, files, documents,
          next_doc_id, query_cache, ret, runs, served, stop_pending,
          db, tx, upc, call,
          handler, wpc, pending, observer, total, flushes, recorded, enqueued,
          daemon, watch, mtimes>>

queueVars == <<events, pc, queued, pos, exc, result, runs, served, stop_pending>>
storeVars == <<documents, next_doc_id, query_cache>>
upsertVars == <<db, tx, upc, call>>
pushVars == <<handler, wpc, pending, observer, total, flushes, recorded, enqueued>>
hostVars == <<daemon, watch, mtimes>>

NULL == "NULL"
NoFile == [missing |-> TRUE]   \* what files holds for a path that is no regular file

\* ------------------------------------------------------------------ bounds
MaxEvents == 2          \* rows the events table may hold
MaxTime == 2            \* last tick of the clock of the watcher process
MaxRepoTime == 1        \* last tick of the clock under SpecRepo
MaxDocIds == 2          \* document ids handed out by direct upserts
MaxHits == 1            \* cache hits counted per entry
TicksPerYear == 1       \* clock ticks in one calendar year
MaxRaises == 5          \* exceptions the actions of the events raise in one run

PathOrder == <<"a.md", "b.md">>     \* the paths, in the order sorted() gives them
Paths == {PathOrder[i] : i \in 1..Len(PathOrder)}
Errors == {"disk error"}    \* str(exc) of what an action may raise

\* ------------------------------------------------------- program constants
MaxAttempts == 5
TtlSeconds == 3600      \* CacheConfig.ttl_seconds
DefaultBatchSize == 256

\* ------------------------------------------------------------------ helpers
Max(a, b) == IF a >= b THEN a ELSE b
Min(a, b) == IF a <= b THEN a ELSE b

Take(s, n) == SubSeq(s, 1, Min(n, Len(s)))

\* ---------------------------------------------------------------- content
\* A markdown file is modelled by what parse_markdown extracts from it that
\* the store and the ranker read: the words of title and summary, the
\* paragraphs of the body (each a set of words; a paragraph is one chunk,
\* paragraphs of more than 120 words are not modelled) and the concepts.
\* The second paragraph of FileText is the one-letter word "a".
FileK8 == [head |-> {"kubernetes"},
           paras |-> <<{"kubernetes", "cluster"}>>,
           concepts |-> {"kubernetes"}]
FileText == [head |-> {"text"},
             paras |-> <<{"unrelated", "text"}, {"a"}>>,
             concepts |-> {"content"}]
Contents == {FileK8, FileText}

BodyWords(parsed) == UNION {parsed.paras[i] : i \in 1..Len(parsed.paras)}

\* _tokenize of a path such as /docs/a.md, without the one-letter tokens
PathWords(path) == {"docs", "md"}

\* ------------------------------------------------------------- repository
\* _hash_embedding: bucket = first two bytes of sha256(token) mod 64; the
\* values below are those of the real function for the words of the model.
Bucket(token) ==
    CASE token = "kubernetes" -> 43
      [] token = "cluster"    -> 12
      [] token = "unrelated"  -> 48
      [] token = "content"    -> 48
      [] token = "text"       -> 45
      [] token = "docs"       -> 52
      [] token = "md"         -> 38
      [] OTHER                -> 0

\* _tokenize(text): the [a-z0-9]+ tokens of more than one letter
TextTokens(text) == {w \in text : w # "a"}

\* The vector before normalisation, as the function bucket -> count over the
\* buckets that are not zero. The empty function is the all-zero vector.
BucketCounts(tokens) ==
    [b \in {Bucket(t) : t \in tokens} |-> Cardinality({t \in tokens : Bucket(t) = b})]

Buckets(v) == DOMAIN v
Dot(left, right) ==
    LET common == Buckets(left) \cap Buckets(right)
        RECURSIVE Sum(_)
        Sum(S) == IF S = {} THEN 0
                  ELSE LET b == CHOOSE x \in S : TRUE
                       IN  left[b] * right[b] + Sum(S \ {b})
    IN  Sum(common)

\* The vector returned without the division by norm.
HashEmbeddingNotNormalised(text) ==
    [counts |-> BucketCounts(TextTokens(text)), norm_sq |-> 1]

\* _hash_embedding(text): the value at bucket b is counts[b] / sqrt(norm_sq);
\* the vector of zeros is returned as it is when norm == 0.0.
HashEmbedding(text) ==
    LET vector == BucketCounts(TextTokens(text))
        norm_sq == Dot(vector, vector)
    IN  IF norm_sq = 0 THEN [counts |-> vector, norm_sq |-> 1]
        ELSE [counts |-> vector, norm_sq |-> norm_sq]

DocByPath(docs, path) == {d \in docs : d.path = path}

\* _chunk_document with compute_embedding of each chunk
ChunkEmbeddings(parsed) ==
    [i \in 1..Len(parsed.paras) |-> HashEmbedding(parsed.paras[i])]

\* upsert_document's embedding_source: title, summary, body, tags, concepts, category
EmbeddingSource(parsed) == parsed.head \cup BodyWords(parsed) \cup parsed.concepts

\* The row upsert_document leaves for path, with its child relations.
DocRow(id, path, parsed, t) ==
    [id |-> id, path |-> path, head |-> parsed.head, paras |-> parsed.paras,
     concepts |-> parsed.concepts, updated_at |-> t,
     embedding |-> HashEmbedding(EmbeddingSource(parsed)),
     chunks |-> ChunkEmbeddings(parsed)]

\* upsert_document: INSERT ... ON CONFLICT(path) DO UPDATE keeps the id of an
\* existing row; the children are deleted and rewritten.
UpsertId(docs, nid, path) ==
    IF DocByPath(docs, path) = {} THEN nid
    ELSE (CHOOSE d \in DocByPath(docs, path) : TRUE).id

UpsertDocs(docs, nid, path, parsed, t) ==
    (docs \ DocByPath(docs, path)) \cup {DocRow(UpsertId(docs, nid, path), path, parsed, t)}

UpsertNextId(docs, nid, path) ==
    IF DocByPath(docs, path) = {} THEN nid + 1 ELSE nid

\* upsert_document executes no statement on query_cache.
UpsertCache(cache) == cache

\* A delete that removes no row.
DeleteNoDocs(docs, path) == docs

\* delete_document_by_path: DELETE FROM documents WHERE path = ?
DeleteDocs(docs, path) == docs \ DocByPath(docs, path)

\* A look-up that finds no document.
DocumentNeverExists(docs, path) == FALSE

\* _document_exists: SELECT 1 FROM documents WHERE path = ? LIMIT 1
DocumentExists(docs, path) == DocByPath(docs, path) # {}

\* delete_document_by_path executes no statement on query_cache.
DeleteCache(cache) == cache

\* ------------------------------------------------------- semantic search
\* A query string is modelled by its text after strip().lower() and by
\* whether the caller's string had surrounding blanks or capitals.
Queries ==
    [cleaned : {"kubernetes", "x", ""}, raw : {"plain"}]
        \cup [cleaned : {"kubernetes", ""}, raw : {"padded"}]
Limits == {2}

\* cleaned = query.strip().lower()
Clean(query) == query.cleaned

\* _tokenize of a cleaned query: the [a-z0-9]+ tokens of more than one letter
Tokenize(cleaned) == IF cleaned = "kubernetes" THEN {"kubernetes"} ELSE {}

\* The words of the model that LIKE '%query%' matches.
LikeWords(cleaned) ==
    CASE cleaned = "kubernetes" -> {"kubernetes"}
      [] cleaned = "x"          -> {"text"}
      [] OTHER                  -> {}

\* sha256("semantic:" + cleaned + ":" + limit)
QueryHash(cleaned, limit) == <<cleaned, limit>>

\* cosine_similarity: the sum of the products of the values of the two
\* vectors, in hundredths rounded down.
Cosine(left, right) ==
    LET nn == left.norm_sq * right.norm_sq
        d == 100 * Dot(left.counts, right.counts)
    IN  CHOOSE c \in 0..100 : c * c * nn <= d * d /\ d * d < (c + 1) * (c + 1) * nn

Year(t) == t \div TicksPerYear

\* The score of one document, in units of 1/10000.
Score(doc, cleaned, t) ==
    LET query_tokens == Tokenize(cleaned)
        query_embedding == HashEmbedding(query_tokens)
        tokens == TextTokens(PathWords(doc.path) \cup doc.head \cup BodyWords(doc))
        overlap == Cardinality(query_tokens \cap tokens)
        lexical_score == (100 * overlap) \div Max(1, Cardinality(query_tokens))
        vector_score == Cosine(query_embedding, doc.embedding)
        chunk_scores == {Cosine(query_embedding, doc.chunks[i]) : i \in DOMAIN doc.chunks}
        chunk_score == IF chunk_scores = {} THEN 0
                       ELSE CHOOSE m \in chunk_scores : \A x \in chunk_scores : x <= m
        concept_score == IF query_tokens \cap doc.concepts # {} THEN 100 ELSE 0
        freshness_bonus == IF Year(doc.updated_at) = Year(t) THEN 500 ELSE 0
    IN  45 * vector_score + 30 * chunk_score + 20 * lexical_score
          + 5 * concept_score + freshness_bonus

\* A sort that puts, of two rows of equal key, the later row of the SELECT first.
RankedBeforeLaterRowFirst(d, e, scores) ==
    \/ scores[d] > scores[e]
    \/ scores[d] = scores[e] /\ d.updated_at > e.updated_at
    \/ scores[d] = scores[e] /\ d.updated_at = e.updated_at /\ d.id > e.id

\* scored.sort(key = (score, updated_at), reverse = True): a stable sort of
\* the rows in the order of the SELECT (ascending id). scores maps each
\* document to its score.
RankedBefore(d, e, scores) ==
    \/ scores[d] > scores[e]
    \/ scores[d] = scores[e] /\ d.updated_at > e.updated_at
    \/ scores[d] = scores[e] /\ d.updated_at = e.updated_at /\ d.id < e.id

RECURSIVE RankIds(_, _)
RankIds(docs, scores) ==
    IF docs = {} THEN <<>>
    ELSE LET first == CHOOSE d \in docs :
                         \A e \in docs \ {d} : RankedBefore(d, e, scores)
         IN  <<first.id>> \o RankIds(docs \ {first}, scores)

\* The ids of the documents with a positive score, best first, cut to max(1, limit).
TopIds(docs, cleaned, limit, t) ==
    LET scores == [d \in docs |-> Score(d, cleaned, t)]
    IN  Take(RankIds({d \in docs : scores[d] > 0}, scores), Max(1, limit))

RECURSIVE NewestIds(_)
\* ORDER BY updated_at DESC (rows of equal updated_at in ascending id)
NewestIds(docs) ==
    IF docs = {} THEN <<>>
    ELSE LET first == CHOOSE d \in docs : \A e \in docs \ {d} :
                         \/ d.updated_at > e.updated_at
                         \/ d.updated_at = e.updated_at /\ d.id < e.id
         IN  <<first.id>> \o NewestIds(docs \ {first})

\* search_documents: title LIKE ? OR summary LIKE ? OR path LIKE ? ... LIMIT ?
\* The pattern is '%' + query.strip() + '%' and LIKE ignores the case of
\* letters, so the caller's string matches what its cleaned form matches.
SearchDocuments(docs, cleaned, limit) ==
    LET hits == NewestIds({d \in docs :
                    (d.head \cup PathWords(d.path)) \cap LikeWords(cleaned) # {}})
    IN  IF limit < 0 THEN hits ELSE Take(hits, limit)

\* What semantic_search_documents computes when it does not answer from the cache.
RankOrFallback(docs, cleaned, limit, t) ==
    LET top_ids == TopIds(docs, cleaned, limit, t)
    IN  IF top_ids # <<>> THEN top_ids ELSE SearchDocuments(docs, cleaned, limit)

CacheRow(cache, query_hash) == {r \in cache : r.query_hash = query_hash}

\* _fetch_cache: the cached ids, or NULL when there is no row
FetchCache(cache, query_hash) ==
    IF CacheRow(cache, query_hash) = {} THEN NULL
    ELSE (CHOOSE r \in CacheRow(cache, query_hash) : TRUE).document_ids

\* _fetch_cache: UPDATE query_cache SET hit_count = hit_count + 1, last_accessed = ?
\* (the columns query_text and last_accessed, which no statement reads, are
\* not part of the rows of the model)
TouchCache(cache, query_hash) ==
    {IF r.query_hash = query_hash
     THEN [r EXCEPT !.hit_count = @ + 1] ELSE r : r \in cache}

\* _store_cache: INSERT ... ON CONFLICT(query_hash) DO UPDATE (hit_count is kept)
StoreCache(cache, query_hash, document_ids, t) ==
    IF CacheRow(cache, query_hash) = {}
    THEN cache \cup {[query_hash |-> query_hash, document_ids |-> document_ids,
                      created_at |-> t, hit_count |-> 0]}
    ELSE {IF r.query_hash = query_hash
          THEN [r EXCEPT !.document_ids = document_ids, !.created_at = t]
          ELSE r : r \in cache}

\* The rows of the cached ids as the SELECT ... WHERE id IN (...) yields them
\* (ascending id), without the reordering through by_id.
CachedRowsInTableOrder(docs, cached_ids) ==
    LET found == {cached_ids[k] : k \in DOMAIN cached_ids} \cap {d.id : d \in docs}
        RECURSIVE Ascending(_)
        Ascending(S) ==
            IF S = {} THEN <<>>
            ELSE LET least == CHOOSE x \in S : \A y \in S : x <= y
                 IN  <<least>> \o Ascending(S \ {least})
    IN  Ascending(found)

\* The rows of the cached ids that still exist, in the cached order.
CachedRows(docs, cached_ids) ==
    SelectSeq(cached_ids, LAMBDA id : \E d \in docs : d.id = id)

\* Whether the call answers from the cache: "if cached_ids:"
ServedFromCache(cache, query_hash) ==
    /\ FetchCache(cache, query_hash) # NULL
    /\ FetchCache(cache, query_hash) # <<>>

\* The search without the early return for an empty cleaned query.
SemanticSearchOfAnyQuery(docs, cache, query, limit, t) ==
    LET query_hash == QueryHash(Clean(query), limit)
        touched == TouchCache(cache, query_hash)
        fresh == RankOrFallback(docs, Clean(query), limit, t)
    IN  IF ServedFromCache(cache, query_hash)
        THEN [ids |-> CachedRows(docs, FetchCache(cache, query_hash)),
              cache |-> touched]
        ELSE [ids |-> fresh, cache |-> StoreCache(touched, query_hash, fresh, t)]

\* semantic_search_documents: the ids it returns and the query_cache table
\* it leaves.
SemanticSearch(docs, cache, query, limit, t) ==
    LET query_hash == QueryHash(Clean(query), limit)
        touched == TouchCache(cache, query_hash)
        fresh == RankOrFallback(docs, Clean(query), limit, t)
    IN  IF Clean(query) = "" THEN [ids |-> <<>>, cache |-> cache]
        ELSE IF ServedFromCache(cache, query_hash)
             THEN [ids |-> CachedRows(docs, FetchCache(cache, query_hash)),
                   cache |-> touched]
             ELSE [ids |-> fresh, cache |-> StoreCache(touched, query_hash, fresh, t)]

\* regenerate_embeddings: source = title, summary, category, content
RegeneratedDocs(docs) ==
    {[d EXCEPT !.embedding = HashEmbedding(d.head \cup BodyWords(d))] : d \in docs}

\* ------------------------------------------------------------ event queue
\* _desired_event_type
DesiredEventType(path, deleted_set) ==
    IF path \in deleted_set THEN "delete" ELSE "upsert"

EventIds(evs) == 1..Len(evs)

\* A SELECT that finds the newest row of the path whatever its status.
ExistingOfAnyStatus(evs, path) ==
    LET ids == {i \in EventIds(evs) : evs[i].path = path}
    IN  IF ids = {} THEN 0 ELSE CHOOSE i \in ids : \A j \in ids : j <= i

\* SELECT id FROM events WHERE path = ? AND status = 'queued' ORDER BY id DESC LIMIT 1
ExistingQueued(evs, path) ==
    LET ids == {i \in EventIds(evs) : evs[i].path = path /\ evs[i].status = "queued"}
    IN  IF ids = {} THEN 0 ELSE CHOOSE i \in ids : \A j \in ids : j <= i

\* An UPDATE that refreshes the timestamps of the queued row and keeps its type.
CoalescedRowKeepsType(row, event_type, t) ==
    [row EXCEPT !.created_at = t, !.updated_at = t]

\* The UPDATE of _queue_events on a queued row of the other type.
CoalescedRow(row, event_type, t) ==
    [row EXCEPT !.event_type = event_type, !.created_at = t, !.updated_at = t]

\* The INSERT of _queue_events. first_at is history: the clock reading of the
\* insert, which no statement changes afterwards.
NewRow(event_type, path, t) ==
    [event_type |-> event_type, path |-> path, created_at |-> t, updated_at |-> t,
     status |-> "queued", attempts |-> 0, last_error |-> NULL, first_at |-> t]

\* An iteration that refreshes the queued row whatever its type.
QueueOneAlwaysUpdates(evs, path, event_type, t) ==
    LET existing == ExistingQueued(evs, path)
    IN  IF existing # 0
        THEN [evs EXCEPT ![existing] = CoalescedRow(evs[existing], event_type, t)]
        ELSE Append(evs, NewRow(event_type, path, t))

\* One iteration of the loop of _queue_events.
QueueOne(evs, path, event_type, t) ==
    LET existing == ExistingQueued(evs, path)
    IN  IF existing # 0
        THEN IF evs[existing].event_type = event_type
             THEN evs
             ELSE [evs EXCEPT ![existing] = CoalescedRow(evs[existing], event_type, t)]
        ELSE Append(evs, NewRow(event_type, path, t))

RECURSIVE QueueAll(_, _, _, _)
\* The loop of _queue_events over the sorted paths all_paths[k..].
QueueAll(evs, all_paths, deleted_set, t) ==
    IF all_paths = <<>> THEN evs
    ELSE QueueAll(QueueOne(evs, Head(all_paths),
                           DesiredEventType(Head(all_paths), deleted_set), t),
                  Tail(all_paths), deleted_set, t)

\* sorted(set(changed_paths) | deleted_set)
SortedPaths(S) == SelectSeq(PathOrder, LAMBDA p : p \in S)

\* _queue_events: one transaction, committed at the end.
QueueEvents(evs, changed_paths, deleted_paths, t) ==
    QueueAll(evs, SortedPaths(changed_paths \cup deleted_paths), deleted_paths, t)

\* ORDER BY id ASC alone
ServedInIdOrder(evs, i, j) == i < j

\* ORDER BY created_at ASC, id ASC
ServedBefore(evs, i, j) ==
    \/ evs[i].created_at < evs[j].created_at
    \/ evs[i].created_at = evs[j].created_at /\ i < j

RECURSIVE OrderIds(_, _)
OrderIds(evs, ids) ==
    IF ids = {} THEN <<>>
    ELSE LET first == CHOOSE i \in ids : \A j \in ids \ {i} : ServedBefore(evs, i, j)
         IN  <<first>> \o OrderIds(evs, ids \ {first})

\* The SELECT of _drain_event_queue: the rows as fetched (id, event_type, path, attempts).
FetchQueued(evs, batch_size) ==
    LET ids == OrderIds(evs, {i \in EventIds(evs) : evs[i].status = "queued"})
    IN  [k \in 1..Min(batch_size, Len(ids)) |->
            [id |-> ids[k], event_type |-> evs[ids[k]].event_type,
             path |-> evs[ids[k]].path, attempts |-> evs[ids[k]].attempts]]

\* status = "failed" if next_attempt > 5 else "queued"
RetryStatusOneMore(next_attempt) ==
    IF next_attempt > MaxAttempts THEN "failed" ELSE "queued"

\* status = "failed" if next_attempt >= 5 else "queued"
RetryStatus(next_attempt) ==
    IF next_attempt >= MaxAttempts THEN "failed" ELSE "queued"

\* The UPDATE of the except branch of _drain_event_queue.
FailedRow(row, attempts, error, t) ==
    [row EXCEPT !.status = RetryStatus(attempts + 1), !.attempts = attempts + 1,
                !.last_error = error, !.updated_at = t]

RECURSIVE SumAttempts(_, _)
SumAttempts(evs, k) == IF k = 0 THEN 0 ELSE evs[k].attempts + SumAttempts(evs, k - 1)

\* How many times an action has raised so far: every raise is counted in attempts.
Raised(evs) == SumAttempts(evs, Len(evs))

NoResult == [created |-> 0, modified |-> 0, deleted |-> 0]

\* -------------------------------------------------- the watcher process
\* In Spec the watched roots hold no regular file (files is constant): the
\* action of an upsert event then falls back to delete_document_by_path.
\* SpecPoll and SpecPush write and remove files.
NoRet == [op |-> "none"]

\* The tables of an initialised database; seq holds the AUTOINCREMENT
\* counters (sqlite_sequence).
EmptyDb ==
    [documents |-> {}, headings |-> {}, links |-> {}, tags |-> {},
     document_tags |-> {}, concepts |-> {}, document_concepts |-> {},
     document_chunks |-> {}, embeddings |-> {},
     seq |-> [documents |-> 0, headings |-> 0, links |-> 0, tags |-> 0,
              concepts |-> 0, document_chunks |-> 0]]

NoTx == [open |-> FALSE]      \* tx when no transaction is open
NoCall == [path |-> NULL]      \* call when no upsert_document is running
NoPending == [delete |-> {}, change |-> {}]
NoCallback == [kind |-> NULL]   \* observer.cb when the thread runs no callback
NoPid == 0                      \* _read_pid returns None
\* No pid file, no process started yet; the host numbers its processes from 1.
NoDaemon == [pid_file |-> NoPid, alive |-> {}, zombies |-> {}, killed |-> {}, next_pid |-> 1]
\* snapshot = None before the first watch_once; no watch_once is running.
NoWatch == [snapshot |-> {}, running |-> FALSE, new |-> {},
            changed |-> {}, deleted |-> {}, queued_at |-> 0]

Init ==
    /\ events = <<>>
    /\ now = 0
    /\ pc = "idle"
    /\ queued = <<>>
    /\ pos = 0
    /\ exc = NULL
    /\ result = NoResult
    /\ files = [p \in Paths |-> NoFile]
    /\ documents = {}
    /\ next_doc_id = 1
    /\ query_cache = {}
    /\ ret = NoRet
    /\ runs = <<>>
    /\ served = {}
    /\ stop_pending = {}
    /\ db = EmptyDb
    /\ tx = NoTx
    /\ upc = "idle"
    /\ call = NoCall
    /\ handler = [changed |-> {}, deleted |-> {}]
    /\ wpc = "off"
    /\ pending = NoPending
    /\ observer = [running |-> FALSE, cb |-> NoCallback, calls |-> 0]
    /\ total = NoResult
    /\ flushes = 0
    /\ recorded = {}
    /\ enqueued = {}
    /\ daemon = NoDaemon
    /\ watch = NoWatch
    /\ mtimes = [p \in Paths |-> 0]

\* The clock advances (between two calls of the process).
ClockAdvances(last) ==
    /\ pc \in {"idle", "returned"}
    /\ now < last
    /\ now' = now + 1
    /\ UNCHANGED <<queueVars, files, pushVars, upsertVars, storeVars, ret, hostVars>>

Tick == ClockAdvances(MaxTime)

\* _queue_events(changed_paths, deleted_paths), called by watch_once and
\* _flush_pending_events between two drains.
Enqueue(changed_paths, deleted_paths) ==
    /\ pc \in {"idle", "returned"}
    /\ changed_paths \cup deleted_paths # {}
    /\ LET after == QueueEvents(events, changed_paths, deleted_paths, now)
       IN  /\ Len(after) <= MaxEvents
           /\ events' = after
           /\ runs' = runs \o [k \in 1..(Len(after) - Len(events)) |-> 0]
    /\ pc' = "idle"
    /\ result' = NoResult
    /\ stop_pending' = IF pc = "returned" THEN {} ELSE stop_pending
    /\ UNCHANGED <<queued, pos, exc, served, now, files, pushVars, upsertVars, storeVars, ret, hostVars>>

\* _drain_event_queue is entered: result = WatchRunResult().
DrainBegin ==
    /\ pc \in {"idle", "returned"}
    /\ pc' = "scan"
    /\ result' = NoResult
    /\ served' = {}
    /\ stop_pending' = IF pc = "returned" THEN {} ELSE stop_pending
    /\ UNCHANGED <<events, queued, pos, exc, runs, now, files, pushVars, upsertVars, storeVars, ret, hostVars>>

\* The SELECT at the head of the while loop; an empty batch ends the drain.
DrainScan ==
    /\ pc = "scan"
    /\ LET batch == FetchQueued(events, DefaultBatchSize)
       IN  /\ queued' = batch
           /\ pos' = IF batch = <<>> THEN 0 ELSE 1
           /\ pc' = IF batch = <<>> THEN "returned" ELSE "mark"
           /\ served' = IF batch = <<>> THEN {} ELSE served
    /\ UNCHANGED <<events, exc, result, runs, stop_pending,
                   now, files, pushVars, upsertVars, storeVars, ret, hostVars>>

\* UPDATE events SET status = 'processing' ... ; commit
DrainMark ==
    /\ pc = "mark"
    /\ events' = [events EXCEPT ![queued[pos].id].status = "processing",
                                ![queued[pos].id].updated_at = now]
    /\ pc' = "act"
    /\ UNCHANGED <<queued, pos, exc, result, runs, served, stop_pending,
                   now, files, pushVars, upsertVars, storeVars, ret, hostVars>>

\* The action of the event runs to completion (the try block up to the UPDATE).
DrainActOk ==
    /\ pc = "act"
    /\ LET row == queued[pos]
           existed == DocumentExists(documents, row.path)
       IN  IF row.event_type = "delete" \/ files[row.path] = NoFile
           THEN /\ documents' = DeleteDocs(documents, row.path)
                /\ query_cache' = DeleteCache(query_cache)
                /\ next_doc_id' = next_doc_id
                /\ result' = [result EXCEPT !.deleted = @ + 1]
           ELSE /\ documents' = UpsertDocs(documents, next_doc_id, row.path,
                                           files[row.path], now)
                /\ query_cache' = UpsertCache(query_cache)
                /\ next_doc_id' = UpsertNextId(documents, next_doc_id, row.path)
                /\ result' = IF existed THEN [result EXCEPT !.modified = @ + 1]
                                        ELSE [result EXCEPT !.created = @ + 1]
    /\ exc' = NULL
    /\ runs' = [runs EXCEPT ![queued[pos].id] = @ + 1]
    /\ served' = served \cup {queued[pos].id}
    /\ pc' = "finish"
    /\ UNCHANGED <<events, queued, pos, stop_pending, now, files, pushVars, upsertVars, ret, hostVars>>

\* The action of the event raises; its transaction is rolled back.
DrainActRaise(error) ==
    /\ pc = "act"
    /\ Raised(events) < MaxRaises
    /\ exc' = error
    /\ runs' = [runs EXCEPT ![queued[pos].id] = @ + 1]
    /\ served' = served \cup {queued[pos].id}
    /\ pc' = "finish"
    /\ UNCHANGED <<events, queued, pos, result, stop_pending,
                   now, files, pushVars, upsertVars, storeVars, ret, hostVars>>

\* The UPDATE to done, or the except branch, and the commit ending the step.
DrainFinish ==
    /\ pc = "finish"
    /\ LET row == queued[pos]
       IN  events' = [events EXCEPT ![row.id] =
                IF exc = NULL
                THEN [@ EXCEPT !.status = "done", !.updated_at = now]
                ELSE FailedRow(@, row.attempts, exc, now)]
    /\ exc' = NULL
    /\ pos' = IF pos < Len(queued) THEN pos + 1 ELSE 0
    /\ pc' = IF pos < Len(queued) THEN "mark" ELSE "scan"
    /\ UNCHANGED <<queued, result, runs, served, stop_pending,
                   now, files, pushVars, upsertVars, storeVars, ret, hostVars>>

NonTerminal(evs) == {i \in EventIds(evs) : evs[i].status \in {"queued", "processing"}}

\* The process stops (what is not committed is lost) and is started again.
StopAndRestart ==
    /\ pc' = "idle"
    /\ queued' = <<>>
    /\ pos' = 0
    /\ exc' = NULL
    /\ result' = NoResult
    /\ served' = {}
    /\ stop_pending' = NonTerminal(events)
    /\ UNCHANGED <<events, runs, now, files, pushVars, upsertVars, storeVars, ret, hostVars>>

Next ==
    \/ Tick
    \/ \E changed_paths \in SUBSET Paths, deleted_paths \in SUBSET Paths :
          Enqueue(changed_paths, deleted_paths)
    \/ DrainBegin
    \/ DrainScan
    \/ DrainMark
    \/ DrainActOk
    \/ \E error \in Errors : DrainActRaise(error)
    \/ DrainFinish
    \/ StopAndRestart

Spec == Init /\ [][Next]_vars

\* ------------------------------------------- the repository called directly
\* upsert_document(database_path, file_path, parsed), as the CLI calls it
RepoUpsert(path, parsed) ==
    /\ DocByPath(documents, path) # {} \/ next_doc_id <= MaxDocIds
    /\ documents' = UpsertDocs(documents, next_doc_id, path, parsed, now)
    /\ next_doc_id' = UpsertNextId(documents, next_doc_id, path)
    /\ query_cache' = UpsertCache(query_cache)
    /\ ret' = [op |-> "upsert", id |-> UpsertId(documents, next_doc_id, path)]
    /\ UNCHANGED <<queueVars, now, files, pushVars, upsertVars, hostVars>>

\* delete_document_by_path(database_path, file_path)
RepoDelete(path) ==
    /\ documents' = DeleteDocs(documents, path)
    /\ query_cache' = DeleteCache(query_cache)
    /\ ret' = [op |-> "delete", deleted |-> DocByPath(documents, path) # {}]
    /\ UNCHANGED <<queueVars, now, files, pushVars, upsertVars, next_doc_id, hostVars>>

\* semantic_search_documents(database_path, query, limit). In ret, again is
\* history: whether the call before this one was the same search.
RepoSearch(query, limit) ==
    /\ \A r \in CacheRow(query_cache, QueryHash(Clean(query), limit)) :
          r.hit_count < MaxHits
    /\ LET out == SemanticSearch(documents, query_cache, query, limit, now)
       IN  /\ query_cache' = out.cache
           /\ ret' = [op |-> "search", query |-> query, limit |-> limit,
                      ids |-> out.ids,
                      again |-> /\ ret.op = "search"
                                /\ ret.query = query
                                /\ ret.limit = limit]
    /\ UNCHANGED <<queueVars, now, files, pushVars, upsertVars, documents, next_doc_id, hostVars>>

\* regenerate_embeddings(database_path, model_name)
RepoRegenerate ==
    /\ documents' = RegeneratedDocs(documents)
    /\ ret' = [op |-> "regenerate", count |-> Cardinality(documents)]
    /\ UNCHANGED <<queueVars, now, files, pushVars, upsertVars, next_doc_id, query_cache, hostVars>>

RepoTick == ClockAdvances(MaxRepoTime)

NextRepo ==
    \/ RepoTick
    \/ \E path \in Paths, parsed \in Contents : RepoUpsert(path, parsed)
    \/ \E path \in Paths : RepoDelete(path)
    \/ \E query \in Queries, limit \in Limits : RepoSearch(query, limit)
    \/ RepoRegenerate

SpecRepo == Init /\ [][NextRepo]_vars

\* ------------------------------------------- semantic search, any limit
\* The limits a caller may pass: negative, zero, positive.
AnyLimits == {-1, 0, 1}
\* One query is enough: a document updated this year has a score above 0 for
\* every query, one of an earlier year is found by LIKE only.
LimitQueries == [cleaned : {"x"}, raw : {"plain"}]

NextLimit ==
    \/ RepoTick
    \/ \E path \in Paths, parsed \in Contents : RepoUpsert(path, parsed)
    \/ \E query \in LimitQueries, limit \in AnyLimits : RepoSearch(query, limit)

SpecLimit == Init /\ [][NextLimit]_vars

\* ------------------------------- semantic search beside a writer thread
\* One reader thread calls semantic_search_documents while a writer thread
\* upserts and deletes.  sqlite3 runs the reader's SELECTs outside any
\* transaction; its first UPDATE or INSERT takes the write lock, which the
\* commit releases.  While the reader is between its ranking and its
\* _store_cache, ret holds its locals: the ids it ranked and, as history,
\* the documents it ranked them from.
RaceQueries == [cleaned : {"kubernetes", "x"}, raw : {"plain"}]

\* upsert_document by the writer thread, from BEGIN to COMMIT
RaceUpsert(path, parsed) ==
    /\ DocByPath(documents, path) # {} \/ next_doc_id <= MaxDocIds
    /\ documents' = UpsertDocs(documents, next_doc_id, path, parsed, now)
    /\ next_doc_id' = UpsertNextId(documents, next_doc_id, path)
    /\ query_cache' = UpsertCache(query_cache)
    /\ UNCHANGED <<queueVars, now, files, pushVars, upsertVars, ret, hostVars>>

\* delete_document_by_path by the writer thread
RaceDelete(path) ==
    /\ documents' = DeleteDocs(documents, path)
    /\ query_cache' = DeleteCache(query_cache)
    /\ UNCHANGED <<queueVars, now, files, pushVars, upsertVars, next_doc_id,
                   ret, hostVars>>

\* semantic_search_documents when _fetch_cache finds a row: its UPDATE takes
\* the write lock, so no write commits before the call's own commit
RaceSearchLocked(query, limit) ==
    /\ ret.op # "ranking"
    /\ FetchCache(query_cache, QueryHash(Clean(query), limit)) # NULL
    /\ \A r \in CacheRow(query_cache, QueryHash(Clean(query), limit)) :
          r.hit_count < MaxHits
    /\ LET out == SemanticSearch(documents, query_cache, query, limit, now)
       IN  /\ query_cache' = out.cache
           /\ ret' = [op |-> "search", query |-> query, limit |-> limit,
                      ids |-> out.ids, again |-> FALSE]
    /\ UNCHANGED <<queueVars, now, files, pushVars, upsertVars, documents,
                   next_doc_id, hostVars>>

\* semantic_search_documents when _fetch_cache finds no row, up to top_ids
\* (or the fallback's ids): reads only, no lock held
RaceSearchRank(query, limit) ==
    /\ ret.op # "ranking"
    /\ Clean(query) # ""
    /\ FetchCache(query_cache, QueryHash(Clean(query), limit)) = NULL
    /\ ret' = [op |-> "ranking", query |-> query, limit |-> limit,
               ids |-> RankOrFallback(documents, Clean(query), limit, now),
               seen |-> documents]
    /\ UNCHANGED <<queueVars, now, files, pushVars, upsertVars, documents,
                   next_doc_id, query_cache, hostVars>>

\* the same call from _store_cache to the return
RaceSearchStore ==
    /\ ret.op = "ranking"
    /\ query_cache' = StoreCache(query_cache,
                                 QueryHash(Clean(ret.query), ret.limit),
                                 ret.ids, now)
    /\ ret' = [op |-> "search", query |-> ret.query, limit |-> ret.limit,
               ids |-> ret.ids, again |-> FALSE]
    /\ UNCHANGED <<queueVars, now, files, pushVars, upsertVars, documents,
                   next_doc_id, hostVars>>

NextRace ==
    \/ \E path \in Paths, parsed \in Contents : RaceUpsert(path, parsed)
    \/ \E path \in Paths : RaceDelete(path)
    \/ \E query \in RaceQueries, limit \in Limits : RaceSearchLocked(query, limit)
    \/ \E query \in RaceQueries, limit \in Limits : RaceSearchRank(query, limit)
    \/ RaceSearchStore

SpecRace == Init /\ [][NextRace]_vars

\* ------------------------------------------------- benchmark of the search
MaxLatencies == 12   \* calls one benchmark times (iterations * len(cases))

\* elapsed_ms of one call, counted in quarters of a microsecond
Latencies == {5, 7}

\* the one case of the benchmark and its k
BenchQuery == [cleaned |-> "x", raw |-> "plain"]
BenchK == 2

\* round(): the integer nearest to num / den, a tie going to the even one
RoundHalfEven(num, den) ==
    LET q == num \div den
        r == num % den
    IN  IF 2 * r < den THEN q
        ELSE IF 2 * r > den THEN q + 1
        ELSE IF q % 2 = 0 THEN q ELSE q + 1

\* round(x, 3) of x = num / den quarters of a microsecond: whole microseconds
Round3(num, den) == RoundHalfEven(num, 4 * den)

RECURSIVE Sorted(_)
\* sorted(latencies_ms)
Sorted(s) ==
    IF s = <<>> THEN <<>>
    ELSE LET rest == Sorted(Tail(s))
             x == Head(s)
         IN  SelectSeq(rest, LAMBDA y : y <= x) \o <<x>>
                 \o SelectSeq(rest, LAMBDA y : y > x)

RECURSIVE SumOf(_)
SumOf(s) == IF s = <<>> THEN 0 ELSE Head(s) + SumOf(Tail(s))

\* statistics.median of a sorted list, as the fraction num / den
Median(sorted_lat) ==
    LET n == Len(sorted_lat)
    IN  IF n % 2 = 1 THEN [num |-> sorted_lat[(n + 1) \div 2], den |-> 1]
        ELSE [num |-> sorted_lat[n \div 2] + sorted_lat[n \div 2 + 1], den |-> 2]

P95IndexCeil(n) == (19 * (n - 1) + 19) \div 20

\* p95_index = min(n - 1, int(round(0.95 * (n - 1)))), from 0
P95Index(n) == Min(n - 1, RoundHalfEven(19 * (n - 1), 20))

\* the latency_ms object of the report, in microseconds
LatencyReport(latencies_ms) ==
    LET sorted_lat == Sorted(latencies_ms)
        n == Len(sorted_lat)
        p50 == Median(sorted_lat)
    IN  [avg |-> Round3(SumOf(sorted_lat), n),
         p50 |-> Round3(p50.num, p50.den),
         p95 |-> Round3(sorted_lat[P95Index(n) + 1], 1),
         max |-> Round3(sorted_lat[n], 1)]

\* the latencies the running benchmark has recorded so far
LatenciesSoFar == IF ret.op = "benchmark_loop" THEN ret.latencies_ms ELSE <<>>

\* benchmark_semantic_queries, one pass of the loop body: the timed call of
\* semantic_search_documents and latencies_ms.append(elapsed_ms)
BenchmarkCase(elapsed_ms) ==
    /\ ret.op \in {"none", "benchmark_loop"}
    /\ Len(LatenciesSoFar) < MaxLatencies
    /\ LET out == SemanticSearch(documents, query_cache, BenchQuery, BenchK, now)
       IN  query_cache' = out.cache
    /\ ret' = [op |-> "benchmark_loop",
               latencies_ms |-> Append(LatenciesSoFar, elapsed_ms)]
    /\ UNCHANGED <<queueVars, now, files, pushVars, upsertVars, documents,
                   next_doc_id, hostVars>>

\* benchmark_semantic_queries after the loop: evaluate_semantic_precision
\* (one more search per case, no expected id) and the report
BenchmarkReport ==
    /\ ret.op = "benchmark_loop"
    /\ LET out == SemanticSearch(documents, query_cache, BenchQuery, BenchK, now)
       IN  /\ query_cache' = out.cache
           /\ ret' = [op |-> "benchmark",
                      latencies_ms |-> ret.latencies_ms,
                      cases |-> 1,
                      iterations |-> Len(ret.latencies_ms),
                      k |-> BenchK,
                      hits |-> Cardinality({} \cap {out.ids[i] : i \in DOMAIN out.ids}),
                      latency_ms |-> LatencyReport(ret.latencies_ms)]
    /\ UNCHANGED <<queueVars, now, files, pushVars, upsertVars, documents,
                   next_doc_id, hostVars>>

\* benchmark_semantic_queries with no case: the report of zeros
BenchmarkNoCases ==
    /\ ret.op = "none"
    /\ ret' = [op |-> "benchmark",
               latencies_ms |-> <<>>,
               cases |-> 0,
               iterations |-> 1,
               k |-> BenchK,
               hits |-> 0,
               latency_ms |-> [avg |-> 0, p50 |-> 0, p95 |-> 0, max |-> 0]]
    /\ UNCHANGED <<queueVars, now, files, pushVars, upsertVars, documents,
                   next_doc_id, query_cache, hostVars>>

NextBench ==
    \/ \E elapsed_ms \in Latencies : BenchmarkCase(elapsed_ms)
    \/ BenchmarkReport
    \/ BenchmarkNoCases

SpecBench == Init /\ [][NextBench]_vars

\* ------------------------------- the documents table and its child tables
\* A parsed document as upsert_document reads it: title, content_hash, the
\* texts of the headings, the targets of the links, the tags, the concepts,
\* the word count of each paragraph of the body (_chunk_document keeps only
\* paragraphs that are not blank) and the tokens of the embedding source.
ParsedAlpha ==
    [title |-> "Alpha", content_hash |-> "hash-alpha",
     headings |-> <<"Alpha", "Setup">>, links |-> <<"b.md", "b.md">>,
     tags |-> <<"Ops", "ops">>, concepts |-> <<"alpha">>,
     paras |-> <<130, 5>>, words |-> {"kubernetes", "cluster"}]
ParsedBeta ==
    [title |-> "Beta", content_hash |-> "hash-beta",
     headings |-> <<"Beta">>, links |-> <<>>,
     tags |-> <<"dev">>, concepts |-> <<>>,
     paras |-> <<>>, words |-> {"text"}]
ParsedDocs == {ParsedAlpha, ParsedBeta}
\* A document with a link to a watched path, a link to a file that never
\* exists, an external link and a link to an anchor of its own.
ParsedLinked ==
    [title |-> "Linked", content_hash |-> "hash-linked",
     headings |-> <<"Linked">>,
     links |-> <<"b.md", "missing.md", "https://example.com", "#setup">>,
     tags |-> <<>>, concepts |-> <<>>,
     paras |-> <<>>, words |-> {"text"}]
LinkedDocs == {ParsedLinked, ParsedBeta}

\* parse_markdown: is_external = target.startswith("http://") or
\* target.startswith("https://")
IsExternal(target) == target = "https://example.com"

\* str.lower() on the names of the model
Lower(name) == IF name = "Ops" THEN "ops" ELSE name

\* max_words of _chunk_document
MaxWords == 120

\* The tables with the child rows a document owns.
ChildTables ==
    {"headings", "links", "document_tags", "document_concepts",
     "document_chunks", "embeddings"}

\* SELECT id FROM documents WHERE path = ?   (0 when there is no row)
SelectDocumentId(t, path) ==
    LET rows == {d \in t.documents : d.path = path}
    IN  IF rows = {} THEN 0 ELSE (CHOOSE d \in rows : TRUE).id

\* INSERT OR REPLACE INTO documents: a row of the same path is deleted and
\* the new row takes the next id.
InsertOrReplaceDocument(t, path, parsed, at) ==
    [t EXCEPT !.documents =
                 {d \in @ : d.path # path} \cup
                 {[id |-> t.seq.documents + 1, path |-> path, title |-> parsed.title,
                   content_hash |-> parsed.content_hash, updated_at |-> at]},
              !.seq.documents = @ + 1]

\* INSERT INTO documents ... ON CONFLICT(path) DO UPDATE SET ...
InsertDocument(t, path, parsed, at) ==
    LET id == SelectDocumentId(t, path)
        row == [path |-> path, title |-> parsed.title,
                content_hash |-> parsed.content_hash, updated_at |-> at]
    IN  IF id = 0
        THEN [t EXCEPT !.documents = @ \cup {row @@ [id |-> t.seq.documents + 1]},
                       !.seq.documents = @ + 1]
        ELSE [t EXCEPT !.documents =
                 {IF d.path = path THEN row @@ [id |-> id] ELSE d : d \in @}]

\* DELETE FROM <table> without the WHERE clause
DeleteEveryRow(rows, document_id) == {}

\* DELETE FROM <table> WHERE document_id = ?
DeleteWhere(rows, document_id) == {r \in rows : r.document_id # document_id}

\* An upsert_document without the DELETE statements on the child tables.
KeepChildRows(t, document_id) == t

\* The five DELETE statements of upsert_document (embeddings is not among them).
DeleteChildRows(t, document_id) ==
    [t EXCEPT !.headings = DeleteWhere(@, document_id),
              !.links = DeleteWhere(@, document_id),
              !.document_tags = DeleteWhere(@, document_id),
              !.document_concepts = DeleteWhere(@, document_id),
              !.document_chunks = DeleteWhere(@, document_id)]

\* executemany INSERT INTO headings
InsertHeadings(t, document_id, parsed) ==
    [t EXCEPT !.headings = @ \cup
                 {[id |-> t.seq.headings + k, document_id |-> document_id,
                   heading_text |-> parsed.headings[k], position |-> k]
                  : k \in 1..Len(parsed.headings)},
              !.seq.headings = @ + Len(parsed.headings)]

\* executemany INSERT INTO links
InsertLinks(t, document_id, parsed) ==
    [t EXCEPT !.links = @ \cup
                 {[id |-> t.seq.links + k, document_id |-> document_id,
                   target |-> parsed.links[k],
                   is_external |-> IsExternal(parsed.links[k]),
                   status |-> "unknown", checked_at |-> <<>>]
                  : k \in 1..Len(parsed.links)},
              !.seq.links = @ + Len(parsed.links)]

\* _get_or_create_id(connection, table, name): the id of the row of that
\* name in t[table] (tags or concepts), 0 when there is none
NameId(t, table, name) ==
    LET rows == {r \in t[table] : r.name = name}
    IN  IF rows = {} THEN 0 ELSE (CHOOSE r \in rows : TRUE).id

\* _get_or_create_id: the tables after the INSERT it makes for a new name
GetOrCreate(t, table, name) ==
    IF NameId(t, table, name) # 0 THEN t
    ELSE [t EXCEPT ![table] = @ \cup {[id |-> t.seq[table] + 1, name |-> name]},
                   !.seq[table] = @ + 1]

RECURSIVE InsertEdges(_, _, _, _, _)
\* for name in names: id = _get_or_create_id(...); INSERT OR IGNORE INTO <edges>
\* (table is tags or concepts, edges is document_tags or document_concepts)
InsertEdges(t, table, edges, document_id, names) ==
    IF names = <<>> THEN t
    ELSE LET interned == GetOrCreate(t, table, Lower(Head(names)))
             edge == [document_id |-> document_id,
                      ref_id |-> NameId(interned, table, Lower(Head(names)))]
         IN  InsertEdges([interned EXCEPT ![edges] = @ \cup {edge}],
                         table, edges, document_id, Tail(names))

RECURSIVE Windows(_, _)
\* The while loop of _chunk_document over one paragraph of n words: the
\* token counts of its windows of at most max_words words.
Windows(n, max_words) ==
    IF n <= 0 THEN <<>>
    ELSE <<Min(n, max_words)>> \o Windows(n - max_words, max_words)

RECURSIVE ChunkDocument(_, _)
\* _chunk_document: the token counts of the chunks, in chunk_index order
ChunkDocument(paras, max_words) ==
    IF paras = <<>> THEN <<>>
    ELSE Windows(Head(paras), max_words) \o ChunkDocument(Tail(paras), max_words)

\* executemany INSERT INTO document_chunks (chunk_index starts at 0)
InsertChunks(t, document_id, parsed) ==
    LET chunks == ChunkDocument(parsed.paras, MaxWords)
    IN  [t EXCEPT !.document_chunks = @ \cup
                     {[id |-> t.seq.document_chunks + k, document_id |-> document_id,
                       chunk_index |-> k - 1, token_count |-> chunks[k]]
                      : k \in 1..Len(chunks)},
                  !.seq.document_chunks = @ + Len(chunks)]

\* INSERT INTO embeddings ... ON CONFLICT(document_id) DO UPDATE SET ...
InsertEmbedding(t, document_id, parsed, at) ==
    [t EXCEPT !.embeddings = DeleteWhere(@, document_id) \cup
                 {[document_id |-> document_id,
                   embedding |-> HashEmbedding(parsed.words),
                   generated_at |-> at]}]

\* The same DELETE on a connection that enforces no foreign key: the row of
\* documents alone is removed.
DeleteDocumentRowOnly(t, path) ==
    [t EXCEPT !.documents = {d \in @ : d.path # path}]

\* DELETE FROM documents WHERE path = ? with foreign_keys = ON: every child
\* table declares document_id ... REFERENCES documents(id) ON DELETE CASCADE.
DeleteDocument(t, path) ==
    LET id == SelectDocumentId(t, path)
    IN  [t EXCEPT !.documents = {d \in @ : d.path # path},
                  !.headings = DeleteWhere(@, id),
                  !.links = DeleteWhere(@, id),
                  !.document_tags = DeleteWhere(@, id),
                  !.document_concepts = DeleteWhere(@, id),
                  !.document_chunks = DeleteWhere(@, id),
                  !.embeddings = DeleteWhere(@, id)]

\* rowcount of a DELETE that counts the rows of the table
CountOfAllDocuments(t, path) == Cardinality(t.documents)

\* rowcount of that DELETE
DeletedCount(t, path) == Cardinality({d \in t.documents : d.path = path})

\* SELECT content, token_count FROM document_chunks WHERE document_id = ?
\* ORDER BY chunk_index ASC. The content of a chunk is " ".join(subset) and its
\* token_count is len(subset): a row stands for that many words.
RECURSIVE ChunkRows(_, _)
ChunkRows(t, document_id) ==
    LET rows == {r \in t.document_chunks : r.document_id = document_id}
    IN  IF rows = {} THEN <<>>
        ELSE LET first == CHOOSE r \in rows : \A o \in rows : r.chunk_index <= o.chunk_index
             IN  <<first>> \o ChunkRows([t EXCEPT !.document_chunks = @ \ {first}],
                                        document_id)

\* budget = max_tokens if max_tokens is not None and max_tokens > 0 else None
\* (0 stands for None)
Budget(max_tokens) == IF max_tokens > 0 THEN max_tokens ELSE 0

RECURSIVE SelectWholeChunks(_, _, _)
\* The loop without the word slice: it stops at the chunk that overflows.
SelectWholeChunks(rows, budget, used) ==
    IF rows = <<>> THEN <<>>
    ELSE LET tc == Head(rows).token_count
         IN  IF budget > 0 /\ used + tc > budget THEN <<>>
             ELSE <<[chunk_index |-> Head(rows).chunk_index, words |-> tc]>>
                     \o SelectWholeChunks(Tail(rows), budget, used + tc)

RECURSIVE SelectLoop(_, _, _)
\* The for loop of _select_content: the pieces of selected, each the leading
\* words of one chunk.
SelectLoop(rows, budget, used) ==
    IF rows = <<>> THEN <<>>
    ELSE LET tc == Head(rows).token_count
             remaining == budget - used
         IN  IF budget > 0 /\ used + tc > budget
             THEN IF remaining <= 0 THEN <<>>
                  ELSE <<[chunk_index |-> Head(rows).chunk_index,
                          words |-> Min(remaining, tc)]>>
             ELSE <<[chunk_index |-> Head(rows).chunk_index, words |-> tc]>>
                     \o SelectLoop(Tail(rows), budget, used + tc)

\* _select_content with section = None
SelectContent(t, document_id, include_content, max_tokens) ==
    IF ~include_content THEN <<>>
    ELSE SelectLoop(ChunkRows(t, document_id), Budget(max_tokens), 0)

\* An exit that keeps what the statements before the exception wrote.
KeptPartialWrites(committed, uncommitted) == uncommitted

\* Leaving "with sqlite3.connect(...) as connection" by an exception rolls the
\* transaction back: the committed tables stay as they were.
RolledBack(committed, uncommitted) == committed

\* ---------------------------------- upsert_document, statement by statement
MaxHeadingRows == 4     \* heading ids handed out when the last upsert begins
MaxStoreTime == 1       \* last tick of the clock under SpecStore
DocumentIds == {1, 2}                \* the ids get_document is called with
MaxTokens == {0, 120, 125, 140}      \* max_tokens of get_document (0: None)

\* upsert_document is entered: connect, PRAGMA, now = _utc_now_iso()
UpsertBegin(path, parsed) ==
    /\ upc = "idle"
    /\ db.seq.headings < MaxHeadingRows
    /\ call' = [path |-> path, parsed |-> parsed, at |-> now, document_id |-> 0]
    /\ tx' = db
    /\ upc' = "document"
    /\ UNCHANGED <<db, ret, queueVars, now, files, pushVars, storeVars, hostVars>>

\* INSERT INTO documents ... ON CONFLICT; SELECT id FROM documents WHERE path = ?
UpsertDocument ==
    /\ upc = "document"
    /\ tx' = InsertDocument(tx, call.path, call.parsed, call.at)
    /\ call' = [call EXCEPT !.document_id = SelectDocumentId(tx', call.path)]
    /\ upc' = "delete"
    /\ UNCHANGED <<db, ret, queueVars, now, files, pushVars, storeVars, hostVars>>

\* The DELETE statements on the child tables
UpsertDeleteChildren ==
    /\ upc = "delete"
    /\ tx' = DeleteChildRows(tx, call.document_id)
    /\ upc' = "headings"
    /\ UNCHANGED <<db, call, ret, queueVars, now, files, pushVars, storeVars, hostVars>>

UpsertHeadings ==
    /\ upc = "headings"
    /\ tx' = InsertHeadings(tx, call.document_id, call.parsed)
    /\ upc' = "links"
    /\ UNCHANGED <<db, call, ret, queueVars, now, files, pushVars, storeVars, hostVars>>

UpsertLinks ==
    /\ upc = "links"
    /\ tx' = InsertLinks(tx, call.document_id, call.parsed)
    /\ upc' = "tags"
    /\ UNCHANGED <<db, call, ret, queueVars, now, files, pushVars, storeVars, hostVars>>

\* for tag in parsed.tags: ...
UpsertTags ==
    /\ upc = "tags"
    /\ tx' = InsertEdges(tx, "tags", "document_tags", call.document_id, call.parsed.tags)
    /\ upc' = "concepts"
    /\ UNCHANGED <<db, call, ret, queueVars, now, files, pushVars, storeVars, hostVars>>

\* for concept in parsed.concepts: ...
UpsertConcepts ==
    /\ upc = "concepts"
    /\ tx' = InsertEdges(tx, "concepts", "document_concepts", call.document_id,
                         call.parsed.concepts)
    /\ upc' = "chunks"
    /\ UNCHANGED <<db, call, ret, queueVars, now, files, pushVars, storeVars, hostVars>>

\* _chunk_document, compute_embedding of each chunk, executemany INSERT
UpsertChunks ==
    /\ upc = "chunks"
    /\ tx' = InsertChunks(tx, call.document_id, call.parsed)
    /\ upc' = "embedding"
    /\ UNCHANGED <<db, call, ret, queueVars, now, files, pushVars, storeVars, hostVars>>

\* compute_embedding(embedding_source); INSERT INTO embeddings ... ON CONFLICT
UpsertEmbedding ==
    /\ upc = "embedding"
    /\ tx' = InsertEmbedding(tx, call.document_id, call.parsed, call.at)
    /\ upc' = "commit"
    /\ UNCHANGED <<db, call, ret, queueVars, now, files, pushVars, storeVars, hostVars>>

\* connection.commit(); return document_id
UpsertCommit ==
    /\ upc = "commit"
    /\ db' = tx
    /\ tx' = NoTx
    /\ upc' = "idle"
    /\ call' = NoCall
    /\ ret' = [op |-> "upsert", raised |-> FALSE, path |-> call.path,
               parsed |-> call.parsed, id |-> call.document_id]
    /\ UNCHANGED <<queueVars, now, files, pushVars, storeVars, hostVars>>

\* The statement at upc raises; the exception leaves upsert_document.
UpsertRaise ==
    /\ upc # "idle"
    /\ db' = RolledBack(db, tx)
    /\ tx' = NoTx
    /\ upc' = "idle"
    /\ call' = NoCall
    /\ ret' = [op |-> "upsert", raised |-> TRUE, path |-> call.path,
               parsed |-> call.parsed, id |-> 0, at |-> upc]
    /\ UNCHANGED <<queueVars, now, files, pushVars, storeVars, hostVars>>

\* delete_document_by_path(database_path, file_path)
StoreDelete(path) ==
    /\ upc = "idle"
    /\ db' = DeleteDocument(db, path)
    /\ ret' = [op |-> "delete", path |-> path, deleted |-> DeletedCount(db, path) > 0]
    /\ UNCHANGED <<tx, upc, call, queueVars, now, files, pushVars, storeVars, hostVars>>

\* get_document(database_path, document_id, include_content, max_tokens)
StoreGet(document_id, include_content, max_tokens) ==
    /\ upc = "idle"
    /\ ret' = IF \E d \in db.documents : d.id = document_id
              THEN [op |-> "get", found |-> TRUE, id |-> document_id,
                    include_content |-> include_content, max_tokens |-> max_tokens,
                    content |-> SelectContent(db, document_id, include_content,
                                              max_tokens)]
              ELSE [op |-> "get", found |-> FALSE, id |-> document_id]
    /\ UNCHANGED <<db, tx, upc, call, queueVars, now, files, pushVars, storeVars, hostVars>>

StoreTick == upc = "idle" /\ ClockAdvances(MaxStoreTime)

NextStore ==
    \/ StoreTick
    \/ \E path \in Paths, parsed \in ParsedDocs : UpsertBegin(path, parsed)
    \/ UpsertDocument
    \/ UpsertDeleteChildren
    \/ UpsertHeadings
    \/ UpsertLinks
    \/ UpsertTags
    \/ UpsertConcepts
    \/ UpsertChunks
    \/ UpsertEmbedding
    \/ UpsertCommit
    \/ UpsertRaise
    \/ \E path \in Paths : StoreDelete(path)
    \/ \E document_id \in DocumentIds, include_content \in BOOLEAN,
          max_tokens \in MaxTokens :
             StoreGet(document_id, include_content, max_tokens)

SpecStore == Init /\ [][NextStore]_vars

\* ------------------------------------------------------- link validation
MaxLinkUpserts == 3  \* upserts under SpecLinks (each inserts one heading)
MaxLinkTime == 1     \* last tick of the clock under SpecLinks

\* upsert_document from its first statement to its commit
UpsertTables(t, path, parsed, at) ==
    LET t1 == InsertDocument(t, path, parsed, at)
        id == SelectDocumentId(t1, path)
        t2 == InsertLinks(InsertHeadings(DeleteChildRows(t1, id), id, parsed), id, parsed)
        t3 == InsertEdges(t2, "tags", "document_tags", id, parsed.tags)
        t4 == InsertEdges(t3, "concepts", "document_concepts", id, parsed.concepts)
    IN  InsertEmbedding(InsertChunks(t4, id, parsed), id, parsed, at)

\* A check of internal links that does not look at the disk.
CheckInternalWithoutDisk(target, disk) == "ok"

\* _check_internal(document_path, target): the documents of the model are in
\* one directory, so that (doc.parent / target).resolve() is the path target.
CheckInternal(target, disk) ==
    IF target = "#setup" THEN "ok"
    ELSE IF target \in Paths /\ disk[target] # NoFile THEN "ok" ELSE "broken"

\* The rows the for loop of validate_links updates and reports.
CheckedLinks(t, check_external) ==
    {r \in t.links : ~r.is_external \/ check_external}

\* The status validate_links computes for row r; outcome is what
\* _check_external returns for an http(s) target.
LinkStatus(r, disk, outcome) ==
    IF r.is_external THEN outcome ELSE CheckInternal(r.target, disk)

\* UPDATE links SET status = ?, checked_at = ? WHERE id = ?, for every checked row
ValidatedLinks(t, disk, check_external, outcome, at) ==
    {IF r \in CheckedLinks(t, check_external)
     THEN [r EXCEPT !.status = LinkStatus(r, disk, outcome), !.checked_at = <<at>>]
     ELSE r : r \in t.links}

RECURSIVE LinkResults(_, _, _)
\* results, in the order of the SELECT (ORDER BY l.id ASC)
LinkResults(rows, disk, outcome) ==
    IF rows = {} THEN <<>>
    ELSE LET r == CHOOSE x \in rows : \A y \in rows : x.id <= y.id
         IN  <<[link_id |-> r.id, target |-> r.target,
                status |-> LinkStatus(r, disk, outcome)]>>
                \o LinkResults(rows \ {r}, disk, outcome)

\* upsert_document(database_path, file_path, parsed), the whole call
LinksUpsert(path, parsed) ==
    /\ db.seq.headings < MaxLinkUpserts
    /\ db' = UpsertTables(db, path, parsed, now)
    /\ ret' = [op |-> "upsert", path |-> path]
    /\ UNCHANGED <<tx, upc, call, queueVars, now, files, pushVars, storeVars, hostVars>>

\* A file is written under the watched root.
FileWrite(path) ==
    /\ files[path] = NoFile
    /\ files' = [files EXCEPT ![path] = FileText]
    /\ UNCHANGED <<upsertVars, ret, queueVars, now, pushVars, storeVars, hostVars>>

\* A file is removed.
FileRemove(path) ==
    /\ files[path] # NoFile
    /\ files' = [files EXCEPT ![path] = NoFile]
    /\ UNCHANGED <<upsertVars, ret, queueVars, now, pushVars, storeVars, hostVars>>

\* validate_links(database_path, check_external = check_external)
LinksValidate(check_external, outcome) ==
    /\ db' = [db EXCEPT !.links = ValidatedLinks(db, files, check_external, outcome, now)]
    /\ ret' = [op |-> "validate", check_external |-> check_external,
               results |-> LinkResults(CheckedLinks(db, check_external), files, outcome)]
    /\ UNCHANGED <<tx, upc, call, queueVars, now, files, pushVars, storeVars, hostVars>>

LinksTick == ClockAdvances(MaxLinkTime)

NextLinks ==
    \/ LinksTick
    \/ \E path \in Paths, parsed \in LinkedDocs : LinksUpsert(path, parsed)
    \/ \E path \in Paths : FileWrite(path)
    \/ \E path \in Paths : FileRemove(path)
    \/ \E check_external \in BOOLEAN, outcome \in {"ok", "broken"} :
          LinksValidate(check_external, outcome)

SpecLinks == Init /\ [][NextLinks]_vars

\* ------------------------------------ get_document beside an upsert
\* One reader thread calls get_document while a writer thread upserts.  The
\* reader's SELECTs are six statements outside any transaction: each sees
\* the tables as the last commit left them.  While the call runs, ret holds
\* what it has read so far and the statement it executes next.

\* SELECT ... FROM headings WHERE document_id = ? ORDER BY position ASC
SelectHeadings(t, document_id) ==
    LET rows == {r \in t.headings : r.document_id = document_id}
        RECURSIVE ByPosition(_)
        ByPosition(S) ==
            IF S = {} THEN <<>>
            ELSE LET first == CHOOSE r \in S : \A o \in S :
                                  <<r.position, r.id>> = <<o.position, o.id>>
                                  \/ r.position < o.position
                                  \/ (r.position = o.position /\ r.id < o.id)
                 IN  <<first.heading_text>> \o ByPosition(S \ {first})
    IN  ByPosition(rows)

\* SELECT target, is_external, status FROM links WHERE document_id = ?
\* ORDER BY id ASC
SelectLinks(t, document_id) ==
    LET rows == {r \in t.links : r.document_id = document_id}
        RECURSIVE ById(_)
        ById(S) ==
            IF S = {} THEN <<>>
            ELSE LET first == CHOOSE r \in S : \A o \in S : r.id <= o.id
                 IN  <<[target |-> first.target,
                        is_external |-> first.is_external,
                        status |-> first.status]>> \o ById(S \ {first})
    IN  ById(rows)

\* SELECT t.name FROM <table> t JOIN <edges> e ON e.<ref> = t.id
\* WHERE e.document_id = ? ORDER BY t.name ASC   (the names, as a set)
SelectNames(t, table, edges, document_id) ==
    {r.name : r \in {q \in t[table] :
        \E e \in t[edges] : e.document_id = document_id /\ e.ref_id = q.id}}

\* get_document up to "if doc is None: return None"
GetDocumentRow(document_id, include_content) ==
    /\ ret.op # "getting"
    /\ ret' = IF \E d \in db.documents : d.id = document_id
              THEN LET doc == CHOOSE d \in db.documents : d.id = document_id
                   IN  [op |-> "getting", next |-> "headings",
                        id |-> document_id, include_content |-> include_content,
                        path |-> doc.path, title |-> doc.title,
                        updated_at |-> doc.updated_at]
              ELSE [op |-> "get", found |-> FALSE, id |-> document_id]
    /\ UNCHANGED <<db, tx, upc, call, queueVars, now, files, pushVars,
                   storeVars, hostVars>>

\* heading_rows = connection.execute(...).fetchall()
GetHeadings ==
    /\ ret.op = "getting" /\ ret.next = "headings"
    /\ ret' = [next |-> "links", headings |-> SelectHeadings(db, ret.id)] @@ ret
    /\ UNCHANGED <<db, tx, upc, call, queueVars, now, files, pushVars,
                   storeVars, hostVars>>

\* link_rows = connection.execute(...).fetchall()
GetLinks ==
    /\ ret.op = "getting" /\ ret.next = "links"
    /\ ret' = [next |-> "tags", links |-> SelectLinks(db, ret.id)] @@ ret
    /\ UNCHANGED <<db, tx, upc, call, queueVars, now, files, pushVars,
                   storeVars, hostVars>>

\* tag_rows = connection.execute(...).fetchall()
GetTags ==
    /\ ret.op = "getting" /\ ret.next = "tags"
    /\ ret' = [next |-> "concepts",
               tags |-> SelectNames(db, "tags", "document_tags", ret.id)] @@ ret
    /\ UNCHANGED <<db, tx, upc, call, queueVars, now, files, pushVars,
                   storeVars, hostVars>>

\* concept_rows = connection.execute(...).fetchall()
GetConcepts ==
    /\ ret.op = "getting" /\ ret.next = "concepts"
    /\ ret' = [next |-> "content",
               concepts |-> SelectNames(db, "concepts", "document_concepts",
                                        ret.id)] @@ ret
    /\ UNCHANGED <<db, tx, upc, call, queueVars, now, files, pushVars,
                   storeVars, hostVars>>

\* content = _select_content(...); return DocumentDetail(...)
GetContent ==
    /\ ret.op = "getting" /\ ret.next = "content"
    /\ ret' = [op |-> "get", found |-> TRUE, id |-> ret.id,
               include_content |-> ret.include_content,
               path |-> ret.path, title |-> ret.title,
               updated_at |-> ret.updated_at,
               headings |-> ret.headings, links |-> ret.links,
               tags |-> ret.tags, concepts |-> ret.concepts,
               content |-> SelectContent(db, ret.id, ret.include_content, 0)]
    /\ UNCHANGED <<db, tx, upc, call, queueVars, now, files, pushVars,
                   storeVars, hostVars>>

\* upsert_document by the writer thread: what its commit makes visible
GetBesideUpsert(path, parsed) ==
    /\ db.seq.headings < MaxHeadingRows
    /\ db' = UpsertTables(db, path, parsed, now)
    /\ UNCHANGED <<tx, upc, call, ret, queueVars, now, files, pushVars,
                   storeVars, hostVars>>

NextGet ==
    \/ \E document_id \in DocumentIds, include_content \in BOOLEAN :
           GetDocumentRow(document_id, include_content)
    \/ GetHeadings
    \/ GetLinks
    \/ GetTags
    \/ GetConcepts
    \/ GetContent
    \/ \E path \in Paths, parsed \in ParsedDocs : GetBesideUpsert(path, parsed)

SpecGet == Init /\ [][NextGet]_vars

\* ------------------------------------------------------------ API server
\* A POST request: the path of the URL and the body. A body is bytes that are
\* not UTF-8, text that is not JSON, a JSON array, or a JSON object with
\* method and params.
ApiPaths == {"/api/v1/query", "/api/v1/get_doc", "/api/v1/find_concept", "/api/v2/query"}
ApiMethods == {"semantic_query", "get_document", "find_by_concept", "delete_document"}
ApiParams ==
    {[query |-> "kubernetes", max_results |-> 2],
     [document_id |-> 1], [document_id |-> 9],
     [concept |-> "kubernetes", max_results |-> 2]}
ApiBodies ==
    {[kind |-> "not utf-8"], [kind |-> "not json"], [kind |-> "array"]}
        \cup [kind : {"object"}, method : ApiMethods, params : ApiParams]
Requests == [path : ApiPaths, body : ApiBodies]

\* params.get(key, default)
ParamOr(params, key, default) ==
    IF key \in DOMAIN params THEN params[key] ELSE default

RpcSuccess(payload) == [status |-> 200, kind |-> "result", result |-> payload]
RpcError(status, code) == [status |-> status, kind |-> "error", code |-> code]

\* do_POST: the responses it writes and the exception that leaves it, if any.
DoPost(docs, req) ==
    LET body == req.body
        answered(response) == [responses |-> <<response>>, raised |-> NULL]
        left(exception) == [responses |-> <<>>, raised |-> exception]
    IN  CASE body.kind = "not utf-8" -> left("UnicodeDecodeError")
          [] body.kind = "not json" -> answered(RpcError(400, -32700))
          [] body.kind = "array" -> left("AttributeError")
          [] OTHER ->
               IF req.path = "/api/v1/query" /\ body.method = "semantic_query"
               THEN LET query == ParamOr(body.params, "query", "")
                        max_results == ParamOr(body.params, "max_results", 10)
                    IN  answered(RpcSuccess(
                           SearchDocuments(docs, query, Max(1, max_results))))
               ELSE IF req.path = "/api/v1/get_doc" /\ body.method = "get_document"
               THEN LET document_id == ParamOr(body.params, "document_id", 0)
                    IN  IF \E d \in docs : d.id = document_id
                        THEN answered(RpcSuccess(<<document_id>>))
                        ELSE answered(RpcError(404, -32004))
               ELSE IF req.path = "/api/v1/find_concept" /\ body.method = "find_by_concept"
               THEN left("NameError")
               ELSE answered(RpcError(404, -32601))

\* One POST is handled.
ApiPost(req) ==
    /\ ret' = [op |-> "post", req |-> req, out |-> DoPost(documents, req)]
    /\ UNCHANGED <<queueVars, now, files, pushVars, upsertVars, storeVars, hostVars>>

NextApi ==
    \/ \E path \in Paths, parsed \in Contents : RepoUpsert(path, parsed)
    \/ \E path \in Paths : RepoDelete(path)
    \/ \E req \in Requests : ApiPost(req)

SpecApi == Init /\ [][NextApi]_vars

\* ------------------------------------------------- daemon (pid file)
\* A process of the host is alive, or has terminated and waits to be reaped
\* (a zombie), or is gone. killed holds the live processes with a SIGKILL
\* sent and not yet acted on.
MaxPids == 3         \* pids the host hands out under SpecDaemon
Pids == 1..MaxPids

\* _read_pid
ReadPid(d) == d.pid_file

\* _is_pid_running: os.kill(pid, 0) succeeds as long as the process table
\* holds the pid, a zombie included.
IsPidRunning(d, pid) == pid \in d.alive \cup d.zombies

\* status_background
StatusBackground(d) ==
    LET pid == ReadPid(d)
    IN  IF pid = NoPid THEN <<FALSE, NoPid>> ELSE <<IsPidRunning(d, pid), pid>>

\* start_background
StartBackground(d) ==
    LET existing == ReadPid(d)
    IN  IF existing # NoPid /\ IsPidRunning(d, existing)
        THEN [d |-> d, pid |-> existing]
        ELSE [d |-> [d EXCEPT !.alive = @ \cup {d.next_pid},
                              !.pid_file = d.next_pid,
                              !.next_pid = @ + 1],
              pid |-> d.next_pid]

\* The exits of stop_background once SIGTERM is sent, by what the process
\* does before the deadline:
\*   "gone"     it terminates and is reaped: the loop sees it and returns;
\*   "zombie"   it terminates and is not reaped: the loop runs to the
\*              deadline, SIGKILL is sent to the zombie;
\*   "alive"    it does not terminate: SIGKILL is sent, the call returns
\*              without waiting for the signal to act;
\*   "vanished" it is reaped between the last look and os.kill(SIGKILL),
\*              which raises ProcessLookupError.
StopOutcomes == {"gone", "zombie", "alive", "vanished"}

\* stop_background
StopBackground(d, outcome) ==
    LET pid == ReadPid(d)
    IN  IF pid = NoPid THEN [d |-> d, stopped |-> FALSE, raised |-> FALSE]
        ELSE IF ~IsPidRunning(d, pid)
        THEN [d |-> [d EXCEPT !.pid_file = NoPid], stopped |-> FALSE, raised |-> FALSE]
        ELSE IF outcome = "vanished"
        THEN [d |-> [d EXCEPT !.alive = @ \ {pid}, !.zombies = @ \ {pid}],
              stopped |-> FALSE, raised |-> TRUE]
        ELSE IF outcome = "gone"
        THEN [d |-> [d EXCEPT !.alive = @ \ {pid}, !.zombies = @ \ {pid},
                              !.pid_file = NoPid],
              stopped |-> TRUE, raised |-> FALSE]
        ELSE IF outcome = "zombie" \/ pid \in d.zombies
        THEN [d |-> [d EXCEPT !.alive = @ \ {pid}, !.zombies = @ \cup {pid},
                              !.pid_file = NoPid],
              stopped |-> TRUE, raised |-> FALSE]
        ELSE [d |-> [d EXCEPT !.killed = @ \cup {pid}, !.pid_file = NoPid],
              stopped |-> TRUE, raised |-> FALSE]

\* start_background(command, pid_file)
DaemonStart ==
    /\ daemon.next_pid <= MaxPids
    /\ LET r == StartBackground(daemon)
       IN  /\ daemon' = r.d
           /\ ret' = [op |-> "start", pid |-> r.pid]
    /\ UNCHANGED <<queueVars, now, files, pushVars, upsertVars, storeVars, watch, mtimes>>

\* stop_background(pid_file, timeout_s)
DaemonStop(outcome) ==
    /\ LET r == StopBackground(daemon, outcome)
       IN  /\ daemon' = r.d
           /\ ret' = [op |-> "stop", stopped |-> r.stopped, raised |-> r.raised,
                      pid |-> ReadPid(daemon)]
    /\ UNCHANGED <<queueVars, now, files, pushVars, upsertVars, storeVars, watch, mtimes>>

\* status_background(pid_file)
DaemonStatus ==
    /\ ret' = [op |-> "status", status |-> StatusBackground(daemon)]
    /\ UNCHANGED <<queueVars, now, files, pushVars, upsertVars, storeVars, hostVars>>

\* restart_background(command, pid_file): stop_background, then
\* start_background unless the stop raised.
DaemonRestart(outcome) ==
    /\ daemon.next_pid <= MaxPids
    /\ LET s == StopBackground(daemon, outcome)
           r == StartBackground(s.d)
       IN  IF s.raised
           THEN /\ daemon' = s.d
                /\ ret' = [op |-> "restart", raised |-> TRUE, previous |-> ReadPid(daemon)]
           ELSE /\ daemon' = r.d
                /\ ret' = [op |-> "restart", raised |-> FALSE, previous |-> ReadPid(daemon),
                           pid |-> r.pid]
    /\ UNCHANGED <<queueVars, now, files, pushVars, upsertVars, storeVars, watch, mtimes>>

\* A live process terminates: by itself, or by the SIGKILL sent to it.
ProcessExits(pid) ==
    /\ pid \in daemon.alive
    /\ daemon' = [daemon EXCEPT !.alive = @ \ {pid}, !.killed = @ \ {pid},
                                !.zombies = @ \cup {pid}]
    /\ UNCHANGED <<queueVars, now, files, pushVars, upsertVars, storeVars, ret, watch, mtimes>>

\* The parent of a zombie waits for it.
ProcessReaped(pid) ==
    /\ pid \in daemon.zombies
    /\ daemon' = [daemon EXCEPT !.zombies = @ \ {pid}]
    /\ UNCHANGED <<queueVars, now, files, pushVars, upsertVars, storeVars, ret, watch, mtimes>>

NextDaemon ==
    \/ DaemonStart
    \/ \E outcome \in StopOutcomes : DaemonStop(outcome)
    \/ DaemonStatus
    \/ \E outcome \in StopOutcomes : DaemonRestart(outcome)
    \/ \E pid \in Pids : ProcessExits(pid)
    \/ \E pid \in Pids : ProcessReaped(pid)

SpecDaemon == Init /\ [][NextDaemon]_vars

\* ------------------------------------- start_background, two callers
\* Two processes call start_background on the same pid file.  While calls
\* run, ret holds for each caller the statement it executes next and the
\* pid it holds: existing after the check, process.pid after Popen.
Callers == {1, 2}

NoCaller == [pc |-> "idle", pid |-> NoPid]

CallerStates ==
    IF ret.op = "start_background" THEN ret.callers
    ELSE [c \in Callers |-> NoCaller]

\* ret with caller c at statement next holding pid
CallerAt(c, next, pid) ==
    [op |-> "start_background",
     callers |-> [CallerStates EXCEPT ![c] = [pc |-> next, pid |-> pid]]]

\* existing = _read_pid(pid_file); if existing is not None and
\* _is_pid_running(existing): return existing
StartCheck(c) ==
    /\ CallerStates[c].pc \in {"idle", "returned"}
    /\ daemon.next_pid <= MaxPids
    /\ LET existing == ReadPid(daemon)
       IN  ret' = IF existing # NoPid /\ IsPidRunning(daemon, existing)
                  THEN CallerAt(c, "returned", existing)
                  ELSE CallerAt(c, "spawn", NoPid)
    /\ UNCHANGED <<queueVars, now, files, pushVars, upsertVars, storeVars,
                   hostVars>>

\* process = subprocess.Popen(command, ...)
StartSpawn(c) ==
    /\ CallerStates[c].pc = "spawn"
    /\ daemon.next_pid <= MaxPids
    /\ daemon' = [daemon EXCEPT !.alive = @ \cup {daemon.next_pid},
                                !.next_pid = @ + 1]
    /\ ret' = CallerAt(c, "write", daemon.next_pid)
    /\ UNCHANGED <<queueVars, now, files, pushVars, upsertVars, storeVars,
                   watch, mtimes>>

\* pid_file.write_text(str(process.pid)); return int(process.pid)
StartWrite(c) ==
    /\ CallerStates[c].pc = "write"
    /\ daemon' = [daemon EXCEPT !.pid_file = CallerStates[c].pid]
    /\ ret' = CallerAt(c, "returned", CallerStates[c].pid)
    /\ UNCHANGED <<queueVars, now, files, pushVars, upsertVars, storeVars,
                   watch, mtimes>>

NextStart ==
    \/ \E c \in Callers : StartCheck(c)
    \/ \E c \in Callers : StartSpawn(c)
    \/ \E c \in Callers : StartWrite(c)
    \/ \E pid \in Pids : ProcessExits(pid)
    \/ \E pid \in Pids : ProcessReaped(pid)

SpecStart == Init /\ [][NextStart]_vars

\* ------------------------------------------------ push mode (watchdog)
MaxCallbacks == 2    \* callbacks the observer thread makes
MaxFlushes == 1      \* times the loop sleeps before the duration has elapsed

\* watch_loop_watchdog up to observer.start()
PushStart ==
    /\ wpc = "off" /\ pc = "idle"
    /\ observer' = [observer EXCEPT !.running = TRUE]
    /\ total' = NoResult
    /\ wpc' = "read_deleted"
    /\ UNCHANGED <<queueVars, now, files, upsertVars, storeVars, ret,
                   handler, pending, flushes, recorded, enqueued, hostVars>>

\* on_created / on_modified in the observer thread, up to self.changed.add
OnChange(path) ==
    /\ observer.running /\ observer.cb = NoCallback
    /\ observer.calls < MaxCallbacks
    /\ files' = [files EXCEPT ![path] = FileText]
    /\ handler' = [handler EXCEPT !.changed = @ \cup {path}]
    /\ observer' = [observer EXCEPT !.cb = [kind |-> "change", path |-> path],
                                    !.calls = @ + 1]
    /\ recorded' = recorded \cup {path}
    /\ UNCHANGED <<queueVars, now, upsertVars, storeVars, ret,
                   wpc, pending, total, flushes, enqueued, hostVars>>

\* on_deleted in the observer thread, up to self.deleted.add
OnDelete(path) ==
    /\ observer.running /\ observer.cb = NoCallback
    /\ observer.calls < MaxCallbacks
    /\ files' = [files EXCEPT ![path] = NoFile]
    /\ handler' = [handler EXCEPT !.deleted = @ \cup {path}]
    /\ observer' = [observer EXCEPT !.cb = [kind |-> "delete", path |-> path],
                                    !.calls = @ + 1]
    /\ recorded' = recorded \cup {path}
    /\ UNCHANGED <<queueVars, now, upsertVars, storeVars, ret,
                   wpc, pending, total, flushes, enqueued, hostVars>>

\* the discard that ends _record_change / _record_delete
OnEventEnd ==
    /\ observer.cb # NoCallback
    /\ handler' = IF observer.cb.kind = "change"
                  THEN [handler EXCEPT !.deleted = @ \ {observer.cb.path}]
                  ELSE [handler EXCEPT !.changed = @ \ {observer.cb.path}]
    /\ observer' = [observer EXCEPT !.cb = NoCallback]
    /\ UNCHANGED <<queueVars, now, files, upsertVars, storeVars, ret,
                   wpc, pending, total, flushes, recorded, enqueued, hostVars>>

\* pending_delete = sorted(handler.deleted)
FlushReadDeleted ==
    /\ wpc = "read_deleted"
    /\ pending' = [pending EXCEPT !.delete = handler.deleted]
    /\ wpc' = "read_changed"
    /\ UNCHANGED <<queueVars, now, files, upsertVars, storeVars, ret,
                   handler, observer, total, flushes, recorded, enqueued, hostVars>>

\* pending_change = sorted(handler.changed)
FlushReadChanged ==
    /\ wpc = "read_changed"
    /\ pending' = [pending EXCEPT !.change = handler.changed]
    /\ wpc' = "clear_deleted"
    /\ UNCHANGED <<queueVars, now, files, upsertVars, storeVars, ret,
                   handler, observer, total, flushes, recorded, enqueued, hostVars>>

\* handler.deleted.clear()
FlushClearDeleted ==
    /\ wpc = "clear_deleted"
    /\ handler' = [handler EXCEPT !.deleted = {}]
    /\ wpc' = "clear_changed"
    /\ UNCHANGED <<queueVars, now, files, upsertVars, storeVars, ret,
                   pending, observer, total, flushes, recorded, enqueued, hostVars>>

\* handler.changed.clear()
FlushClearChanged ==
    /\ wpc = "clear_changed"
    /\ handler' = [handler EXCEPT !.changed = {}]
    /\ wpc' = "queue"
    /\ UNCHANGED <<queueVars, now, files, upsertVars, storeVars, ret,
                   pending, observer, total, flushes, recorded, enqueued, hostVars>>

\* _queue_events(database_path, pending_change, pending_delete)
FlushQueue ==
    /\ wpc = "queue"
    /\ LET after == QueueEvents(events, pending.change, pending.delete, now)
       IN  /\ events' = after
           /\ runs' = runs \o [k \in 1..(Len(after) - Len(events)) |-> 0]
    /\ enqueued' = enqueued \cup pending.change \cup pending.delete
    /\ pending' = NoPending
    /\ wpc' = "drain"
    /\ UNCHANGED <<pc, queued, pos, exc, result, served, stop_pending,
                   now, files, upsertVars, storeVars, ret,
                   handler, observer, total, flushes, recorded, hostVars>>

\* return _drain_event_queue(database_path): the call
FlushDrain == wpc = "drain" /\ pc = "idle" /\ DrainBegin

\* the drain has returned: total += step; after the final flush, return total
FlushReturn ==
    /\ wpc = "drain" /\ pc = "returned"
    /\ total' = [created |-> total.created + result.created,
                 modified |-> total.modified + result.modified,
                 deleted |-> total.deleted + result.deleted]
    /\ pc' = "idle"
    /\ wpc' = IF observer.running THEN "check" ELSE "returned"
    /\ UNCHANGED <<events, queued, pos, exc, result, runs, served, stop_pending,
                   now, files, upsertVars, storeVars, ret,
                   handler, pending, observer, flushes, recorded, enqueued, hostVars>>

\* the duration has not elapsed: time.sleep(max(0.05, debounce_s))
LoopSleep ==
    /\ wpc = "check"
    /\ flushes < MaxFlushes
    /\ flushes' = flushes + 1
    /\ now' = now + 1
    /\ wpc' = "read_deleted"
    /\ UNCHANGED <<queueVars, files, upsertVars, storeVars, ret,
                   handler, pending, observer, total, recorded, enqueued, hostVars>>

\* the duration has elapsed: break
LoopBreak ==
    /\ wpc = "check"
    /\ wpc' = "stop"
    /\ UNCHANGED <<queueVars, now, files, upsertVars, storeVars, ret,
                   handler, pending, observer, total, flushes, recorded, enqueued, hostVars>>

\* observer.stop(); observer.join(timeout=2): the thread ends the callback it
\* is running and makes no other; then the final _flush_pending_events.
ObserverStop ==
    /\ wpc = "stop"
    /\ observer.cb = NoCallback
    /\ observer' = [observer EXCEPT !.running = FALSE]
    /\ wpc' = "read_deleted"
    /\ UNCHANGED <<queueVars, now, files, upsertVars, storeVars, ret,
                   handler, pending, total, flushes, recorded, enqueued, hostVars>>

NextPush ==
    \/ PushStart
    \/ \E path \in Paths : OnChange(path)
    \/ \E path \in Paths : OnDelete(path)
    \/ OnEventEnd
    \/ FlushReadDeleted
    \/ FlushReadChanged
    \/ FlushClearDeleted
    \/ FlushClearChanged
    \/ FlushQueue
    \/ FlushDrain
    \/ DrainScan
    \/ DrainMark
    \/ DrainActOk
    \/ \E error \in Errors : DrainActRaise(error)
    \/ DrainFinish
    \/ FlushReturn
    \/ LoopSleep
    \/ LoopBreak
    \/ ObserverStop

SpecPush == Init /\ [][NextPush]_vars

\* ------------------------------------- push mode: the handler's callbacks
\* The paths the notification thread may report: two regular markdown files,
\* a file with a suffix that is not configured, and a markdown-named entry
\* that may be a symbolic link to that file.
EventPaths == Paths \cup {"notes.txt", "link.md"}

\* Path(path).suffix.lower()
Suffix(path) == IF path = "notes.txt" THEN ".txt" ELSE ".md"

\* the extensions handed to _build_handler
Extensions == {".md"}

\* _is_markdown_file: the suffix of the path as the event reports it
IsMarkdownFile(path) == Suffix(path) \in Extensions

\* Path(path).resolve(): the path itself, or the target of the link when the
\* entry is a symbolic link at the time of the callback.
Resolutions(path) ==
    IF path = "link.md" THEN {"link.md", "notes.txt"} ELSE {path}

\* _record_change, with resolved the value of Path(path).resolve()
RecordChange(h, path, resolved) ==
    IF ~IsMarkdownFile(path) THEN h
    ELSE [changed |-> h.changed \cup {resolved},
          deleted |-> h.deleted \ {resolved}]

\* _record_delete, with resolved the value of Path(path).resolve()
RecordDelete(h, path, resolved) ==
    IF ~IsMarkdownFile(path) THEN h
    ELSE [changed |-> h.changed \ {resolved},
          deleted |-> h.deleted \cup {resolved}]

\* the most recent event of each reported path, kept as history in ret
LastEvents == IF ret.op = "callback" THEN ret.last
              ELSE [p \in EventPaths |-> "none"]

\* on_created and on_modified of a file (is_directory is false)
HandlerChange(path, resolved) ==
    /\ handler' = RecordChange(handler, path, resolved)
    /\ ret' = [op |-> "callback",
               last |-> [LastEvents EXCEPT ![path] = "changed"],
               resolved |-> {resolved}]
    /\ UNCHANGED <<queueVars, now, files, upsertVars, storeVars, wpc, pending,
                   observer, total, flushes, recorded, enqueued, hostVars>>

\* on_deleted of a file
HandlerDelete(path, resolved) ==
    /\ handler' = RecordDelete(handler, path, resolved)
    /\ ret' = [op |-> "callback",
               last |-> [LastEvents EXCEPT ![path] = "deleted"],
               resolved |-> {resolved}]
    /\ UNCHANGED <<queueVars, now, files, upsertVars, storeVars, wpc, pending,
                   observer, total, flushes, recorded, enqueued, hostVars>>

\* on_moved of a file: _record_delete(src_path), then _record_change(dest_path)
HandlerMove(src, rsrc, dest, rdest) ==
    /\ src # dest
    /\ handler' = RecordChange(RecordDelete(handler, src, rsrc), dest, rdest)
    /\ ret' = [op |-> "callback",
               last |-> [LastEvents EXCEPT ![src] = "deleted",
                                           ![dest] = "changed"],
               resolved |-> {rsrc, rdest}]
    /\ UNCHANGED <<queueVars, now, files, upsertVars, storeVars, wpc, pending,
                   observer, total, flushes, recorded, enqueued, hostVars>>

NextHandler ==
    \/ \E path \in EventPaths : \E resolved \in Resolutions(path) :
           HandlerChange(path, resolved)
    \/ \E path \in EventPaths : \E resolved \in Resolutions(path) :
           HandlerDelete(path, resolved)
    \/ \E src \in EventPaths, dest \in EventPaths :
           \E rsrc \in Resolutions(src), rdest \in Resolutions(dest) :
               HandlerMove(src, rsrc, dest, rdest)

SpecHandler == Init /\ [][NextHandler]_vars

\* ------------------------------------------------ polling mode (watch_loop)
MaxPollTime == 1     \* last tick of the clock under SpecPoll
MaxPollEvents == 2   \* rows the events table may hold under SpecPoll
MaxPollRaises == 1   \* raises of an action under SpecPoll

\* _snapshot: the regular files under the roots with their st_mtime, as a
\* set of (path, mtime) pairs.
Snapshot(disk, mt) ==
    {[path |-> p, mtime |-> mt[p]] : p \in {q \in Paths : disk[q] # NoFile}}

SnapPaths(snap) == {r.path : r \in snap}

\* snap[path]
MtimeOf(snap, path) == (CHOOSE r \in snap : r.path = path).mtime

\* created = [path for path in new if path not in old]
CreatedPaths(old, new) == SnapPaths(new) \ SnapPaths(old)

\* deleted = [path for path in old if path not in new]
DeletedPaths(old, new) == SnapPaths(old) \ SnapPaths(new)

\* A comparison of the snapshots that looks at the paths only.
ModifiedPathsIgnoringMtime(old, new) == {}

\* modified = [path for path in new if path in old and new[path] != old[path]]
ModifiedPaths(old, new) ==
    {p \in SnapPaths(new) \cap SnapPaths(old) : MtimeOf(new, p) # MtimeOf(old, p)}

\* A file is written under the watched root: created, or modified in place.
PollFileWrite(path) ==
    /\ files' = [files EXCEPT ![path] = FileText]
    /\ mtimes' = [mtimes EXCEPT ![path] = now]
    /\ UNCHANGED <<queueVars, now, pushVars, upsertVars, storeVars, ret, daemon, watch>>

\* A file is removed from the watched root.
PollFileRemove(path) ==
    /\ files[path] # NoFile
    /\ files' = [files EXCEPT ![path] = NoFile]
    /\ mtimes' = [mtimes EXCEPT ![path] = 0]
    /\ UNCHANGED <<queueVars, now, pushVars, upsertVars, storeVars, ret, daemon, watch>>

\* watch_once up to the call of _drain_event_queue: the snapshot, the three
\* lists and _queue_events.
PollQueue ==
    /\ ~watch.running
    /\ pc \in {"idle", "returned"}
    /\ LET old == watch.snapshot
           new == Snapshot(files, mtimes)
           changed == CreatedPaths(old, new) \cup ModifiedPaths(old, new)
           deleted == DeletedPaths(old, new)
           after == QueueEvents(events, changed, deleted, now)
       IN  /\ Len(after) <= MaxPollEvents
           /\ events' = after
           /\ runs' = runs \o [k \in 1..(Len(after) - Len(events)) |-> 0]
           /\ watch' = [snapshot |-> old, running |-> TRUE, new |-> new,
                        changed |-> changed, deleted |-> deleted, queued_at |-> now]
    /\ pc' = "idle"
    /\ result' = NoResult
    /\ stop_pending' = IF pc = "returned" THEN {} ELSE stop_pending
    /\ UNCHANGED <<queued, pos, exc, served, now, files, pushVars, upsertVars,
                   storeVars, ret, daemon, mtimes>>

\* result = _drain_event_queue(database_path): the call
PollDrain == watch.running /\ pc = "idle" /\ DrainBegin

\* return new, result: the caller keeps new as its snapshot
PollReturn ==
    /\ watch.running /\ pc = "returned"
    /\ watch' = [NoWatch EXCEPT !.snapshot = watch.new]
    /\ pc' = "idle"
    /\ UNCHANGED <<events, queued, pos, exc, result, runs, served, stop_pending,
                   now, files, pushVars, upsertVars, storeVars, ret, daemon, mtimes>>

\* The process stops and is started again: the caller starts with
\* snapshot = None.
PollStopAndRestart ==
    /\ pc' = "idle"
    /\ queued' = <<>>
    /\ pos' = 0
    /\ exc' = NULL
    /\ result' = NoResult
    /\ served' = {}
    /\ stop_pending' = NonTerminal(events)
    /\ watch' = NoWatch
    /\ UNCHANGED <<events, runs, now, files, pushVars, upsertVars, storeVars, ret,
                   daemon, mtimes>>

\* The action of the event raises.
PollActRaise(error) == Raised(events) < MaxPollRaises /\ DrainActRaise(error)

\* time.sleep(interval_s)
PollTick == ~watch.running /\ ClockAdvances(MaxPollTime)

NextPoll ==
    \/ PollTick
    \/ \E path \in Paths : PollFileWrite(path)
    \/ \E path \in Paths : PollFileRemove(path)
    \/ PollQueue
    \/ PollDrain
    \/ DrainScan
    \/ DrainMark
    \/ DrainActOk
    \/ \E error \in Errors : PollActRaise(error)
    \/ DrainFinish
    \/ PollReturn
    \/ PollStopAndRestart

SpecPoll == Init /\ [][NextPoll]_vars

\* --------------------------------------- the queue of one path, to failure
\* Enqueues and drains of the events of one path, with as many raises as it
\* takes an event to fail.
QueuedPaths == {"a.md"}

NextOnePath ==
    \/ \E changed_paths \in SUBSET QueuedPaths, deleted_paths \in SUBSET QueuedPaths :
          Enqueue(changed_paths, deleted_paths)
    \/ DrainBegin
    \/ DrainScan
    \/ DrainMark
    \/ DrainActOk
    \/ \E error \in Errors : DrainActRaise(error)
    \/ DrainFinish
    \/ StopAndRestart

SpecOnePath == Init /\ [][NextOnePath]_vars

\* ------------------------------------------ claims on the query cache

\* C2: after upsert_document has committed, query_cache has no row.
UpsertEmptiesCache ==
    ret.op = "upsert" => query_cache = {}

\* C3: after delete_document_by_path has returned, query_cache has no row.
DeleteEmptiesCache ==
    ret.op = "delete" => query_cache = {}

\* C4: a search made after an upsert or a delete (here: the first call after
\* it, so that every cache entry was stored before the write) returns what a
\* fresh ranking over the documents after the write returns.
NoStaleEntryObserved ==
    [][\A query \in Queries, limit \in Limits :
         (ret.op \in {"upsert", "delete"} /\ Clean(query) # ""
            /\ RepoSearch(query, limit))
            => ret'.ids = RankOrFallback(documents, Clean(query), limit, now)
      ]_vars

\* C5: a search that repeats the call before it, with no upsert, delete or
\* regeneration between the two, returns the same ordered ids.
RepeatedSearchSameIds ==
    [][\A query \in Queries, limit \in Limits :
         (ret.op = "search" /\ ret.query = query /\ ret.limit = limit
            /\ RepoSearch(query, limit))
            => ret'.ids = ret.ids
      ]_vars

\* The same search twice in a row, the second answered from the cache with
\* two documents whose ranking is not the order of their ids.
RepeatedSearchFromCache ==
    /\ ret.op = "search"
    /\ ret.again
    /\ \E r \in query_cache :
          r.query_hash = QueryHash(Clean(ret.query), ret.limit) /\ r.hit_count > 0
    /\ Len(ret.ids) = 2
    /\ ret.ids[1] > ret.ids[2]

\* ----------------------------------------------------- claims on the queue

\* C1: in every reachable state of the events table, every path has at most
\* one row whose status is queued or processing.
OneNonTerminalPerPath ==
    \A p \in Paths :
        Cardinality({i \in NonTerminal(events) : events[i].path = p}) <= 1

QueuedOf(evs, p) == {i \in EventIds(evs) : evs[i].path = p /\ evs[i].status = "queued"}

\* C6: when a path has a queued event of one type and is enqueued with the
\* other type, exactly one queued row of that path remains and it has the
\* type of the later enqueue.
CoalescingKeepsLaterType ==
    [][\A changed_paths \in SUBSET Paths, deleted_paths \in SUBSET Paths :
         (events' # events /\ Enqueue(changed_paths, deleted_paths)) =>
            \A p \in changed_paths \cup deleted_paths :
               LET later == IF p \in deleted_paths THEN "delete" ELSE "upsert"
               IN  (\E i \in QueuedOf(events, p) : events[i].event_type # later)
                   => /\ Cardinality(QueuedOf(events', p)) = 1
                      /\ \A i \in QueuedOf(events', p) : events'[i].event_type = later
                      /\ Len(events') - Len(events) < Cardinality(changed_paths \cup deleted_paths)
      ]_vars

\* Two queued rows whose type was changed by an enqueue later than their
\* insert (created_at was rewritten), one to delete and one to upsert.
CoalescedBothWays ==
    \E i, j \in EventIds(events) :
        /\ events[i].status = "queued" /\ events[j].status = "queued"
        /\ events[i].created_at > events[i].first_at
        /\ events[j].created_at > events[j].first_at
        /\ events[i].event_type = "delete"
        /\ events[j].event_type = "upsert"

AttemptsBounded ==
    \A i \in EventIds(events) :
        /\ events[i].attempts \in 0..5
        /\ events[i].status = "failed" => events[i].attempts = 5
        /\ runs[i] <= 5

RaiseIsRetryOrFail ==
    (DrainFinish /\ exc # NULL) =>
        LET i == queued[pos].id
        IN  /\ events'[i].attempts = events[i].attempts + 1
            /\ events'[i].last_error = exc
            /\ events'[i].last_error # NULL
            /\ events'[i].status = IF events'[i].attempts < 5 THEN "queued" ELSE "failed"

\* C7: when the action of an event raises, attempts grows by exactly 1,
\* last_error is set and the row is queued again while attempts < 5 and
\* failed when attempts reaches 5; attempts stays in 0..5, a row is failed
\* only with attempts = 5 and no action is started more than 5 times.
RetryOrFail == []AttemptsBounded /\ [][RaiseIsRetryOrFail]_vars

\* A row has been retried up to the fifth attempt and is failed.
SomeEventFailed ==
    \E i \in EventIds(events) :
        events[i].status = "failed" /\ runs[i] = 5 /\ events[i].last_error # NULL

\* C8: when a drain returns, no event row is queued or processing.
DrainLeavesNothingPending ==
    pc = "returned" => NonTerminal(events) = {}

\* C9: every event that was persisted and not terminal when the process
\* stopped is done or failed once a drain started after the restart returns.
PendingAtStopIsProcessed ==
    pc = "returned" =>
        \A i \in stop_pending : events[i].status \in {"done", "failed"}

\* C10: when the drain takes the event of b, no event of a path a that was
\* first enqueued strictly before b is still queued and unserved by this drain.
FirstEnqueuedFirstServed ==
    [][DrainMark =>
         \A a \in EventIds(events) :
            (events[a].status = "queued" /\ a \notin served) =>
                ~(events[a].first_at < events[queued[pos].id].first_at)
      ]_vars

\* C10 as amended: the drain takes the events in ascending (created_at, id):
\* when it takes an event, every other event still queued and unserved by
\* this drain has a later created_at, or the same and a larger id.
ServedInCreatedOrder ==
    [][DrainMark =>
         LET b == queued[pos].id
         IN  \A a \in EventIds(events) :
                (events[a].status = "queued" /\ a \notin served /\ a # b) =>
                    \/ events[b].created_at < events[a].created_at
                    \/ events[b].created_at = events[a].created_at /\ b < a
      ]_vars

\* The drain has taken an event while an event first enqueued before it,
\* whose type was coalesced later, is still waiting.
CoalescedEventOvertaken ==
    /\ pc = "act"
    /\ \E a \in EventIds(events) :
          /\ events[a].first_at < events[queued[pos].id].first_at
          /\ events[a].status = "queued"
          /\ a \notin served
          /\ events[a].created_at > events[queued[pos].id].created_at

\* ------------------------------- claims on documents and their children

RECURSIVE RowsInIdOrder(_)
\* The rows of a table in the order of their ids.
RowsInIdOrder(rows) ==
    IF rows = {} THEN <<>>
    ELSE LET first == CHOOSE r \in rows : \A q \in rows : r.id <= q.id
         IN  <<first>> \o RowsInIdOrder(rows \ {first})

OwnedBy(rows, id) == {r \in rows : r.document_id = id}

NamesOf(t, table, edges, id) ==
    {r.name : r \in {q \in t[table] : \E e \in OwnedBy(t[edges], id) : e.ref_id = q.id}}

\* What a reader of the tables t finds for the document row d.
Detail(t, d) ==
    [title |-> d.title,
     content_hash |-> d.content_hash,
     headings |-> [k \in 1..Cardinality(OwnedBy(t.headings, d.id)) |->
                      RowsInIdOrder(OwnedBy(t.headings, d.id))[k].heading_text],
     links |-> [k \in 1..Cardinality(OwnedBy(t.links, d.id)) |->
                   RowsInIdOrder(OwnedBy(t.links, d.id))[k].target],
     tags |-> NamesOf(t, "tags", "document_tags", d.id),
     concepts |-> NamesOf(t, "concepts", "document_concepts", d.id),
     chunks |-> [k \in 1..Cardinality(OwnedBy(t.document_chunks, d.id)) |->
                    RowsInIdOrder(OwnedBy(t.document_chunks, d.id))[k].token_count],
     embeddings |-> {r.embedding : r \in OwnedBy(t.embeddings, d.id)}]

\* The same for the parsed document the row was written from.
DetailOf(parsed) ==
    [title |-> parsed.title,
     content_hash |-> parsed.content_hash,
     headings |-> parsed.headings,
     links |-> parsed.links,
     tags |-> {Lower(parsed.tags[k]) : k \in 1..Len(parsed.tags)},
     concepts |-> {Lower(parsed.concepts[k]) : k \in 1..Len(parsed.concepts)},
     chunks |-> ChunkDocument(parsed.paras, MaxWords),
     embeddings |-> {HashEmbedding(parsed.words)}]

\* Every committed document row has the children of the version it was
\* written from: none missing, none of another version.
CommittedIsOneVersion ==
    \A d \in db.documents :
        \E parsed \in ParsedDocs :
            /\ parsed.content_hash = d.content_hash
            /\ Detail(db, d) = DetailOf(parsed)

\* C11: an upsert_document that raises, at whichever statement, leaves the
\* committed tables exactly as they were before the call, and a reader of the
\* committed tables never finds a document row of one version with children
\* missing or of another version.
UpsertIsAtomic ==
    [](CommittedIsOneVersion) /\ [][UpsertRaise => db' = db]_vars

\* An upsert of an existing document with other content has raised at its
\* last statement, after the row and the children were rewritten.
UpsertRaisedAfterRewrite ==
    /\ ret.op = "upsert" /\ ret.raised /\ ret.at = "commit"
    /\ \E d \in db.documents :
          d.path = ret.path /\ d.content_hash # ret.parsed.content_hash

\* Every row of a child table references a document row of the tables t.
NoOrphanIn(t) ==
    \A table \in ChildTables :
        \A r \in t[table] : \E d \in t.documents : d.id = r.document_id

\* C12: every row of headings, links, document_tags, document_concepts,
\* document_chunks and embeddings references an existing document, and a
\* delete-by-path leaves no child row of the document it removed.
NoOrphanChildRows ==
    /\ [](NoOrphanIn(db))
    /\ [][\A path \in Paths :
            StoreDelete(path) =>
               \A table \in ChildTables :
                  OwnedBy(db'[table], SelectDocumentId(db, path)) = {}
         ]_vars

\* The only document, which had rows in every child table, has been deleted.
DeletedDocumentWithChildren ==
    /\ ret.op = "delete" /\ ret.deleted
    /\ db.documents = {}
    /\ db.seq.headings > 0 /\ db.seq.links > 0 /\ db.seq.document_chunks > 0
    /\ db.tags # {} /\ db.concepts # {}

RECURSIVE WindowCount(_)
\* The number of windows of at most MaxWords words over the paragraphs.
WindowCount(paras) ==
    IF paras = <<>> THEN 0
    ELSE (Head(paras) + MaxWords - 1) \div MaxWords + WindowCount(Tail(paras))

\* The rows of d in a table are exactly the last n rows inserted into it.
LastInserted(t, table, d, n) ==
    {r.id : r \in OwnedBy(t[table], d)} = (t.seq[table] - n + 1)..t.seq[table]

\* C13: once an upsert has committed, the document has as many headings,
\* links and chunks as the parsed input has headings, links and word windows,
\* and they are the rows this upsert inserted: no row of the version before.
ChildCountsMatchParsed ==
    (ret.op = "upsert" /\ ~ret.raised /\ upc = "idle") =>
        /\ Cardinality(OwnedBy(db.headings, ret.id)) = Len(ret.parsed.headings)
        /\ Cardinality(OwnedBy(db.links, ret.id)) = Len(ret.parsed.links)
        /\ Cardinality(OwnedBy(db.document_chunks, ret.id)) = WindowCount(ret.parsed.paras)
        /\ LastInserted(db, "headings", ret.id, Len(ret.parsed.headings))
        /\ LastInserted(db, "links", ret.id, Len(ret.parsed.links))
        /\ LastInserted(db, "document_chunks", ret.id, WindowCount(ret.parsed.paras))

\* Document 1, the only one ever inserted, was stored with two headings, two
\* links and three chunks and has been upserted again with one heading and
\* neither links nor chunks.
UpsertReplacedChildren ==
    /\ ret.op = "upsert" /\ ~ret.raised /\ upc = "idle"
    /\ ret.id = 1 /\ db.seq.documents = 1
    /\ ret.parsed = ParsedBeta
    /\ db.seq.headings = 3 /\ db.seq.links = 2 /\ db.seq.document_chunks = 3

OneRowPerPath(t) ==
    \A p \in Paths : Cardinality({d \in t.documents : d.path = p}) <= 1

\* C14: the documents table never holds two rows of one path, and an upsert
\* of a path that has a document returns the id that document already had.
OneDocumentPerPath ==
    /\ [](OneRowPerPath(db))
    /\ [][UpsertCommit =>
            /\ ret'.id = SelectDocumentId(db', call.path)
            /\ SelectDocumentId(db, call.path) # 0 =>
                  ret'.id = SelectDocumentId(db, call.path)
         ]_vars

\* Document 1 has been upserted again after document 2 was created.
ExistingDocumentUpsertedAgain ==
    /\ ret.op = "upsert" /\ ~ret.raised /\ ret.id = 1
    /\ \E d \in db.documents : d.id = 2

\* C15: upserting the same parsed document for the same path twice in a row
\* leaves, after the second call, the same document id and the same row with
\* the same children and embedding as after the first (updated_at apart),
\* and an empty query cache.
UpsertIsIdempotent ==
    [][\A path \in Paths, parsed \in Contents :
         (/\ RepoUpsert(path, parsed)
          /\ ret.op = "upsert"
          /\ \E d \in DocByPath(documents, path) :
                d = DocRow(ret.id, path, parsed, d.updated_at))
         => /\ ret'.id = ret.id
            /\ \E d \in DocByPath(documents', path) :
                  d = DocRow(ret.id, path, parsed, d.updated_at)
            /\ Cardinality(DocByPath(documents', path)) = 1
            /\ query_cache' = {}
      ]_vars

\* The document row d and its child rows are the same in t and u.
SameDocument(t, u, d) ==
    /\ d \in u.documents
    /\ \A table \in ChildTables : OwnedBy(u[table], d.id) = OwnedBy(t[table], d.id)

\* C16: an upsert or a delete of path p leaves the row and the child rows of
\* every document of another path as they were.
OtherDocumentsUntouched ==
    [][/\ UpsertCommit =>
            \A d \in db.documents : d.path # call.path => SameDocument(db, db', d)
       /\ \A p \in Paths :
            StoreDelete(p) =>
               \A d \in db.documents : d.path # p => SameDocument(db, db', d)
      ]_vars

\* A document has been upserted while an older document of another path,
\* which has links, tags and chunks, is stored.
UpsertBesideOtherDocument ==
    /\ ret.op = "upsert" /\ ~ret.raised
    /\ \E d \in db.documents :
          /\ d.path # ret.path /\ d.id < ret.id
          /\ OwnedBy(db.links, d.id) # {}
          /\ OwnedBy(db.document_tags, d.id) # {}
          /\ OwnedBy(db.document_chunks, d.id) # {}

HasPath(t, path) == \E d \in t.documents : d.path = path

\* C17: delete_document_by_path returns true exactly when a document row of
\* that path existed and is gone afterwards; for a path without a document it
\* returns false and leaves documents and every child table as they were.
DeleteReportsRemoval ==
    [][\A p \in Paths :
          StoreDelete(p) =>
             /\ ret'.deleted <=> (HasPath(db, p) /\ ~HasPath(db', p))
             /\ ~HasPath(db, p) => (~ret'.deleted /\ db' = db)
      ]_vars

\* A delete of a path without a document has returned false while another
\* document and its child rows are stored.
DeleteOfMissingPath ==
    /\ ret.op = "delete" /\ ~ret.deleted
    /\ \E d \in db.documents :
          /\ d.path # ret.path
          /\ OwnedBy(db.headings, d.id) # {}
          /\ OwnedBy(db.embeddings, d.id) # {}

\* ------------------------------------------------- claims on push mode
Attempted(path) == \E i \in EventIds(events) : events[i].path = path /\ runs[i] > 0

\* C18: when watch_loop_watchdog returns after its duration, every path the
\* handler recorded before the observer was stopped has been enqueued and its
\* event attempted, the sets of the handler are empty and no event is queued.
ShutdownFlushesEverything ==
    wpc = "returned" =>
        /\ \A path \in recorded : path \in enqueued /\ Attempted(path)
        /\ handler.changed = {} /\ handler.deleted = {}
        /\ \A i \in EventIds(events) : events[i].status # "queued"

\* ------------------------------------------ claims on the search input
\* C19: semantic_search_documents with a query that is empty after trimming
\* returns the empty list and changes no state: no query_cache row is
\* inserted or updated, no hit count is incremented.
EmptyQueryChangesNothing ==
    [][\A query \in {q \in Queries : Clean(q) = ""}, limit \in Limits :
          RepoSearch(query, limit) =>
              /\ ret'.ids = <<>>
              /\ query_cache' = query_cache
              /\ documents' = documents
              /\ next_doc_id' = next_doc_id
      ]_vars

\* A query of blanks has been searched while documents and cache entries exist.
BlankQuerySearched ==
    /\ ret.op = "search"
    /\ Clean(ret.query) = "" /\ ret.query.raw = "padded"
    /\ documents # {}
    /\ query_cache # {}

\* ------------------------------------------ claims on the cache lifetime
SecondsPerTick == (365 * 24 * 3600) \div TicksPerYear

\* The entry is older at time t than the cache TTL.
Expired(r, t) == (t - r.created_at) * SecondsPerTick > TtlSeconds

\* C20: a cache entry whose created_at is older than the TTL is not used by
\* semantic_search_documents: the search runs again on the documents and the
\* entry is replaced by one whose created_at is the time of the call.
ExpiredEntryIsReplaced ==
    [][\A query \in Queries, limit \in Limits :
          (/\ \E r \in CacheRow(query_cache, QueryHash(Clean(query), limit)) :
                 Expired(r, now)
           /\ RepoSearch(query, limit))
          => /\ ret'.ids = RankOrFallback(documents, Clean(query), limit, now)
             /\ \A r \in CacheRow(query_cache', QueryHash(Clean(query), limit)) :
                   r.created_at = now
      ]_vars

\* ------------------------------------------------ claims on the ranking
DocOfId(docs, id) == CHOOSE d \in docs : d.id = id

RECURSIVE WordCount(_)
WordCount(pieces) ==
    IF pieces = <<>> THEN 0 ELSE Head(pieces).words + WordCount(Tail(pieces))

\* C22: get_document with include_content and max_tokens = B > 0 returns
\* min(B, tokens of the chunks) words: whole chunks in chunk_index order while
\* they fit, then a prefix of the first chunk that overflows with exactly the
\* remaining words, and nothing of a later chunk.
ContentFillsBudget ==
    (ret.op = "get" /\ ret.found /\ ret.include_content /\ ret.max_tokens > 0) =>
        LET rows == ChunkRows(db, ret.id)
            pieces == ret.content
        IN  /\ WordCount(pieces) = Min(ret.max_tokens, WordCount(
                   [k \in DOMAIN rows |-> [words |-> rows[k].token_count]]))
            /\ Len(pieces) <= Len(rows)
            /\ \A k \in DOMAIN pieces :
                  /\ pieces[k].chunk_index = rows[k].chunk_index
                  /\ k < Len(pieces) => pieces[k].words = rows[k].token_count
                  /\ pieces[k].words >= 1
                  /\ pieces[k].words <= rows[k].token_count

\* A budget that ends inside the second of three chunks has been served.
BudgetEndsInsideChunk ==
    /\ ret.op = "get" /\ ret.found /\ ret.include_content /\ ret.max_tokens > 0
    /\ Len(ChunkRows(db, ret.id)) = 3
    /\ Len(ret.content) = 2
    /\ ret.content[2].words < ChunkRows(db, ret.id)[2].token_count

\* ------------------------------------------- claims on stored vectors
IsZeroVector(v) == Dot(v.counts, v.counts) = 0
IsUnitVector(v) == Dot(v.counts, v.counts) = v.norm_sq

\* The vectors upsert_document stored for d, each with its source text.
StoredVectors(d) ==
    {[source |-> EmbeddingSource(d), vector |-> d.embedding]}
        \cup {[source |-> d.paras[i], vector |-> d.chunks[i]] : i \in DOMAIN d.chunks}

\* C23 as stated: a stored vector is the vector of zeros exactly when its
\* source text is empty, and a unit vector for every source text that is not.
ZeroOnlyForEmptyText ==
    (ret.op = "upsert") =>
        \A d \in {x \in documents : x.id = ret.id} : \A s \in StoredVectors(d) :
            /\ IsZeroVector(s.vector) <=> s.source = {}
            /\ s.source # {} => IsUnitVector(s.vector)

\* C23: a stored vector is the vector of zeros exactly when its source text
\* has no token ([a-z0-9]+ of more than one letter), and a unit vector for
\* every source text that has one.
ZeroOnlyForTextWithoutToken ==
    (ret.op = "upsert") =>
        \A d \in {x \in documents : x.id = ret.id} : \A s \in StoredVectors(d) :
            /\ IsZeroVector(s.vector) <=> TextTokens(s.source) = {}
            /\ TextTokens(s.source) # {} =>
                  (IsUnitVector(s.vector) /\ ~IsZeroVector(s.vector))

\* A document is stored with a chunk whose text has no token and a chunk
\* whose tokens fall into two buckets.
ChunkWithoutTokenStored ==
    /\ ret.op = "upsert"
    /\ \E d \in {x \in documents : x.id = ret.id} :
          /\ \E s \in StoredVectors(d) : s.source # {} /\ TextTokens(s.source) = {}
          /\ \E s \in StoredVectors(d) : Cardinality(Buckets(s.vector.counts)) = 2

\* ------------------------------------------------- claims on the links
\* (doc.parent / target).resolve().exists(); the target of a link to an
\* anchor of the document is the directory of the document.
ResolvedTargetExists(target, disk) ==
    target = "#setup" \/ (target \in Paths /\ disk[target] # NoFile)

InResults(results, id) == \E k \in DOMAIN results : results[k].link_id = id

Published(req) ==
    /\ req.body.kind = "object"
    /\ <<req.path, req.body.method>> \in
          {<<"/api/v1/query", "semantic_query">>,
           <<"/api/v1/get_doc", "get_document">>,
           <<"/api/v1/find_concept", "find_by_concept">>}

\* The params are those of the endpoint.
ValidParams(req) ==
    CASE req.body.method = "semantic_query" -> "query" \in DOMAIN req.body.params
      [] req.body.method = "get_document" -> "document_id" \in DOMAIN req.body.params
      [] req.body.method = "find_by_concept" -> "concept" \in DOMAIN req.body.params
      [] OTHER -> FALSE

\* C25: every POST is answered with exactly one JSON-RPC response: -32700 for
\* a body that is not JSON, -32601 for a (path, method) that is no published
\* endpoint, -32004 for get_document of an id without a document, a result
\* for a published endpoint called with valid params, and no exception
\* leaves the handler.
EveryPostIsAnswered ==
    ret.op = "post" =>
        LET req == ret.req
            out == ret.out
            error(code) == /\ out.responses # <<>>
                           /\ out.responses[1].kind = "error"
                           /\ out.responses[1].code = code
        IN  /\ Len(out.responses) = 1
            /\ out.raised = NULL
            /\ req.body.kind \in {"not utf-8", "not json"} => error(-32700)
            /\ (req.body.kind = "object" /\ ~Published(req)) => error(-32601)
            /\ (Published(req) /\ ValidParams(req)) =>
                  IF /\ req.body.method = "get_document"
                     /\ ~\E d \in documents : d.id = req.body.params.document_id
                  THEN error(-32004)
                  ELSE out.responses # <<>> /\ out.responses[1].kind = "result"

\* ------------------------------------------------- claims on the daemon
\* start_background has returned pid P: status_background reports (running, P).
StartThenStatus ==
    DaemonStart => StatusBackground(daemon') = <<TRUE, ret'.pid>>

\* stop_background has returned true: the pid file is absent, the process it
\* stopped is no longer running and status_background reports not running.
StopThenGone ==
    \A outcome \in StopOutcomes :
        DaemonStop(outcome) /\ ret'.stopped =>
            /\ ReadPid(daemon') = NoPid
            /\ ReadPid(daemon) \notin daemon'.alive
            /\ StatusBackground(daemon')[1] = FALSE

\* restart_background on a running daemon has returned: its pid is not the
\* previous one and status_background reports it.
RestartThenNewPid ==
    \A outcome \in StopOutcomes :
        ReadPid(daemon) \in daemon.alive /\ DaemonRestart(outcome) /\ ~ret'.raised =>
            /\ ret'.pid # ReadPid(daemon)
            /\ StatusBackground(daemon') = <<TRUE, ret'.pid>>

\* C26: daemon lifecycle over a pid file. After start_background returns P,
\* status_background reports (running, P); after stop_background returns
\* true the pid file is absent, the process is no longer running and
\* status_background reports not running; restart_background on a running
\* daemon returns a pid other than the previous one, which status_background
\* then reports.
DaemonLifecycle ==
    [][StartThenStatus /\ StopThenGone /\ RestartThenNewPid]_vars

\* ------------------------------------------------ claims on the enqueue
\* C27: an enqueue of a path that has a queued event of the desired type
\* leaves that row as it is (event_type, created_at, updated_at, attempts,
\* last_error) and inserts no row for the path; an enqueue changes no row of
\* another path and no row whose status is not queued.
EnqueueOfSameTypeChangesNothing ==
    [][PollQueue =>
         LET paths == watch'.changed \cup watch'.deleted
         IN  /\ \A p \in paths :
                  LET existing == ExistingQueued(events, p)
                  IN  (/\ existing # 0
                       /\ events[existing].event_type
                             = (IF p \in watch'.deleted THEN "delete" ELSE "upsert"))
                      => /\ events'[existing] = events[existing]
                         /\ \A j \in EventIds(events') \ EventIds(events) :
                               events'[j].path # p
             /\ \A i \in EventIds(events) :
                  (events[i].path \notin paths \/ events[i].status # "queued")
                  => events'[i] = events[i]
      ]_vars

\* watch_once has just queued a path whose queued upsert was inserted at an
\* earlier reading of the clock and is as it was, beside a row of another
\* path that is not queued.
EnqueuedAgainWithSameType ==
    /\ watch.running /\ pc = "idle"
    /\ \E i, k \in EventIds(events) :
          /\ events[i].path \in watch.changed
          /\ events[i].status = "queued"
          /\ events[i].event_type = "upsert"
          /\ events[i].created_at < watch.queued_at
          /\ events[i].updated_at < watch.queued_at
          /\ events[k].path # events[i].path
          /\ events[k].status # "queued"

\* ------------------------------------------- claims on the polling tick
\* C30: a polling tick with previous snapshot old and new snapshot new
\* queues an upsert for exactly the paths of new that old lacks or holds with
\* another mtime, a delete for exactly the paths of old that new lacks,
\* nothing for the paths both hold with the same mtime, and returns new as
\* the next snapshot.
TickQueuesTheDifference ==
    [][/\ PollQueue =>
            /\ watch'.new = {[path |-> p, mtime |-> mtimes[p]] :
                                p \in {q \in Paths : files[q] # NoFile}}
            /\ \A p \in Paths :
                  LET in_old == \E r \in watch.snapshot : r.path = p
                      in_new == files[p] # NoFile
                      same == \E r \in watch.snapshot :
                                  r.path = p /\ r.mtime = mtimes[p]
                      last == ExistingQueued(events', p)
                  IN  /\ (in_new /\ ~(in_old /\ same)) =>
                            last # 0 /\ events'[last].event_type = "upsert"
                      /\ (in_old /\ ~in_new) =>
                            last # 0 /\ events'[last].event_type = "delete"
                      /\ (in_old /\ in_new /\ same) =>
                            /\ \A i \in EventIds(events) :
                                  events[i].path = p => events'[i] = events[i]
                            /\ \A j \in EventIds(events') \ EventIds(events) :
                                  events'[j].path # p
       /\ PollReturn => watch'.snapshot = watch.new
      ]_vars

\* A tick has queued a path as modified: both snapshots hold it, with
\* different mtimes, and its upsert is queued behind the done event of its
\* creation.
TickSawModifiedFile ==
    /\ watch.running /\ pc = "idle"
    /\ \E p \in watch.changed :
          /\ \E r \in watch.snapshot, n \in watch.new :
                r.path = p /\ n.path = p /\ r.mtime # n.mtime
          /\ \E i, j \in EventIds(events) :
                /\ events[i].path = p /\ events[i].status = "done"
                /\ events[j].path = p /\ events[j].status = "queued"
                /\ events[j].event_type = "upsert"
                /\ events[j].created_at = watch.queued_at

\* --------------------------------------------------- claims on the drain
\* C28: draining an upsert event whose path is no regular file at processing
\* time behaves as a delete: the document of the path, if any, is removed,
\* no document is created, the deleted counter is incremented and the event
\* ends done.
UpsertOfMissingFileDeletes ==
    [][/\ (/\ pc = "act"
           /\ queued[pos].event_type = "upsert"
           /\ files[queued[pos].path] = NoFile
           /\ DrainActOk)
          => /\ \A d \in documents' : d.path # queued[pos].path
             /\ documents' \subseteq documents
             /\ \A d \in documents \ documents' : d.path = queued[pos].path
             /\ next_doc_id' = next_doc_id
             /\ result' = [result EXCEPT !.deleted = @ + 1]
             /\ exc' = NULL
       /\ (pc = "finish" /\ exc = NULL /\ DrainFinish)
          => events'[queued[pos].id].status = "done"
      ]_vars

\* The action of an upsert event has completed on a path that is no file:
\* the table holds the done upsert that created the document of the path and
\* this event only, the one document ever created is gone and the drain has
\* counted one delete.
ModifiedFileGoneBeforeDrain ==
    /\ pc = "finish" /\ exc = NULL
    /\ queued[pos].event_type = "upsert"
    /\ files[queued[pos].path] = NoFile
    /\ Len(events) = 2
    /\ events[1].path = queued[pos].path
    /\ events[1].event_type = "upsert" /\ events[1].status = "done"
    /\ queued[pos].id = 2
    /\ next_doc_id = 2
    /\ documents = {}
    /\ result = [created |-> 0, modified |-> 0, deleted |-> 1]

\* created + modified + deleted
Counted(r) == r.created + r.modified + r.deleted

HitCountCountsCacheAnswers ==
    [][\A query \in {q \in Queries : Clean(q) # ""}, limit \in Limits :
          (/\ ret'.op = "search"
           /\ ret'.query = query
           /\ RepoSearch(query, limit))
          => LET query_hash == QueryHash(Clean(query), limit)
                 before == CacheRow(query_cache, query_hash)
             IN  IF before # {} /\ (CHOOSE r \in before : TRUE).document_ids # <<>>
                 THEN /\ ret'.ids = SelectSeq((CHOOSE r \in before : TRUE).document_ids,
                                        LAMBDA id : \E d \in documents : d.id = id)
                      /\ \A r \in before : \E n \in query_cache' :
                            /\ n.query_hash = query_hash
                            /\ n.hit_count = r.hit_count + 1
                      /\ \A r \in query_cache \ before : r \in query_cache'
                 ELSE \A r \in query_cache : \E n \in query_cache' :
                            /\ n.query_hash = r.query_hash
                            /\ n.hit_count = r.hit_count
      ]_vars

\* ------------------------------------------------ claims on the limit
\* C32: for every integer limit, zero and negative ones included, a search
\* returns at most max(1, limit) documents, whether it ranks, falls back or
\* answers from the cache, and every document the ranking returns has a
\* score above 0.
AtMostLimitDocuments ==
    [][\A query \in LimitQueries, limit \in AnyLimits :
          (/\ ret'.op = "search"
           /\ ret'.query = query
           /\ ret'.limit = limit
           /\ RepoSearch(query, limit))
          => /\ Len(ret'.ids) <= (IF limit > 1 THEN limit ELSE 1)
             /\ (/\ ~ServedFromCache(query_cache, QueryHash(Clean(query), limit))
                 /\ \E d \in documents : Score(d, Clean(query), now) > 0)
                => \A k \in DOMAIN ret'.ids : \E d \in documents :
                      d.id = ret'.ids[k] /\ Score(d, Clean(query), now) > 0
      ]_vars


\* ------------------------------------------- claims on the handler's sets
\* C33: after any sequence of handler callbacks the changed and deleted sets
\* are disjoint, every reported path with a configured suffix is in the set
\* of its most recent event, and no path with another suffix is in either
\* set.  The code tests the suffix of the reported path but records
\* Path(path).resolve(): a markdown-named symbolic link to notes.txt puts
\* notes.txt into the changed set, and the link itself into neither.
SetsFollowLastEvent ==
    /\ handler.changed \cap handler.deleted = {}
    /\ \A p \in EventPaths :
          /\ (IsMarkdownFile(p) /\ LastEvents[p] = "changed")
                => p \in handler.changed
          /\ (IsMarkdownFile(p) /\ LastEvents[p] = "deleted")
                => p \in handler.deleted
    /\ \A p \in handler.changed \cup handler.deleted : IsMarkdownFile(p)

\* ---------------------------------------------- claims on the benchmark
\* the values v of the list with at most i values below v and more than i
\* values not above v: what stands at index i (from 0) of the sorted list
AtIndex(lat, i) ==
    {lat[j] : j \in {j \in DOMAIN lat :
        /\ Cardinality({m \in DOMAIN lat : lat[m] < lat[j]}) <= i
        /\ Cardinality({m \in DOMAIN lat : lat[m] <= lat[j]}) > i}}

\* the index nearest to 0.95 * (n - 1), the even one of two equally near
NearestIndex(n) ==
    CHOOSE i \in 0..(n - 1) :
        LET d == 20 * i - 19 * (n - 1)
        IN  /\ d \in -10..10
            /\ (d \in {-10, 10} => i % 2 = 0)

\* ceil(0.95 * (n - 1))
CeilIndex(n) == CHOOSE i \in 0..(n - 1) : 20 * i - 19 * (n - 1) \in 0..19

\* C34 as stated: for every n >= 1 the reported p95 is (the rounding to
\* three decimals of) the latency at index ceil(0.95 * (n - 1)) of the
\* sorted latencies.  The code rounds the index to the nearest integer, so
\* from n = 12 on it reports the latency one place lower.
P95AtCeilIndex ==
    (ret.op = "benchmark" /\ ret.cases > 0) =>
        \E v \in AtIndex(ret.latencies_ms, CeilIndex(Len(ret.latencies_ms))) :
            ret.latency_ms.p95 = Round3(v, 1)

\* C34, amended: for every n >= 1 the reported p95 is the rounding to three
\* decimals of the latency at the index nearest to 0.95 * (n - 1) of the
\* sorted latencies.
P95AtNearestIndex ==
    (ret.op = "benchmark" /\ ret.cases > 0) =>
        \E v \in AtIndex(ret.latencies_ms, NearestIndex(Len(ret.latencies_ms))) :
            ret.latency_ms.p95 = Round3(v, 1)

\* a report over twelve latencies of which only the largest is slow: the
\* nearest index (10) and the ceiling (11) hold different latencies
TwelveLatenciesOneSlow ==
    /\ ret.op = "benchmark"
    /\ Len(ret.latencies_ms) = 12
    /\ Cardinality({j \in DOMAIN ret.latencies_ms : ret.latencies_ms[j] = 7}) = 1
    /\ ret.latency_ms.p95 = 1
    /\ ret.latency_ms.max = 2

\* ------------------------------------------- claims on the push-mode flush
\* the rows of the events table for a path
RowsOf(path) == {i \in EventIds(events) : events[i].path = path}

\* the handler's sets and the lists the running flush has read from them
Waiting == handler.changed \cup handler.deleted
               \cup pending.change \cup pending.delete

\* C35: no recorded change is lost or mis-typed by a flush that runs beside
\* the notification thread: every path a callback has recorded is in the
\* handler's sets, in the lists of the running flush or has been handed to
\* _queue_events, and when the loop has returned the newest event row of
\* every recorded path has the type of the path's most recent event.
FlushLosesNoRecordedChange ==
    /\ \A path \in recorded : path \in enqueued \/ path \in Waiting
    /\ wpc = "returned" =>
          \A path \in recorded :
              \E i \in RowsOf(path) :
                  /\ \A j \in RowsOf(path) : j <= i
                  /\ (events[i].event_type = "delete") <=> (files[path] = NoFile)

\* ------------------------------- claims on the search beside a writer
\* C36: a search that ranked before a write commits does not store its
\* result after that commit: when the reader stores its ids, the documents
\* are those it ranked them from.
StoreFollowsNoCommit ==
    [][(ret.op = "ranking" /\ ret'.op = "search") => ret.seen = documents]_vars

\* ------------------------------- claims on get_document beside an upsert
\* what get_document returns for a document that holds the version parsed
\* and nothing else has ever been written
DetailOfVersion(parsed, include_content) ==
    LET t == UpsertTables(EmptyDb, "a.md", parsed, 0)
    IN  [title |-> parsed.title,
         headings |-> SelectHeadings(t, 1),
         links |-> SelectLinks(t, 1),
         tags |-> SelectNames(t, "tags", "document_tags", 1),
         concepts |-> SelectNames(t, "concepts", "document_concepts", 1),
         content |-> SelectContent(t, 1, include_content, 0)]

\* C37: the detail get_document returns while the document is upserted is
\* taken from one committed version: its title, headings, links, tags,
\* concepts and content are all those of one parsed document.
DetailIsOneVersion ==
    (ret.op = "get" /\ ret.found) =>
        \E parsed \in ParsedDocs :
            [title |-> ret.title, headings |-> ret.headings,
             links |-> ret.links, tags |-> ret.tags,
             concepts |-> ret.concepts, content |-> ret.content]
                = DetailOfVersion(parsed, ret.include_content)

\* ------------------------------------------- claims on the event statuses
StatusGraph ==
    {<<"queued", "processing">>, <<"processing", "done">>,
     <<"processing", "queued">>, <<"processing", "failed">>}

Terminal(row) == row.status \in {"done", "failed"}

\* C38: a status changes only along queued -> processing -> {done, queued,
\* failed}; a row that is done or failed keeps its status, event_type,
\* attempts and last_error at every step; no row is removed; and an enqueue
\* of a path all of whose rows are done or failed inserts a queued row.
StatusesFollowTheGraph ==
    [][/\ Len(events') >= Len(events)
       /\ \A i \in EventIds(events) :
             /\ events'[i].path = events[i].path
             /\ events'[i].status # events[i].status
                   => <<events[i].status, events'[i].status>> \in StatusGraph
             /\ Terminal(events[i])
                   => /\ events'[i].status = events[i].status
                      /\ events'[i].event_type = events[i].event_type
                      /\ events'[i].attempts = events[i].attempts
                      /\ events'[i].last_error = events[i].last_error
       /\ \A changed_paths \in SUBSET QueuedPaths, deleted_paths \in SUBSET QueuedPaths :
             Enqueue(changed_paths, deleted_paths) =>
                 \A p \in changed_paths \cup deleted_paths :
                     (\A i \in EventIds(events) :
                          events[i].path = p => Terminal(events[i]))
                     => \E j \in EventIds(events') \ EventIds(events) :
                            /\ events'[j].path = p
                            /\ events'[j].status = "queued"
                            /\ events'[j].attempts = 0
      ]_vars

\* the first event of a path has failed after five attempts, and a later
\* change of the path has its own row
FailedRowBesideNewRow ==
    /\ Len(events) = 2
    /\ events[1].status = "failed" /\ events[1].attempts = MaxAttempts
    /\ events[2].path = events[1].path
    /\ events[2].status \in {"queued", "processing", "done"}

\* ---------------------------------------- claims on the index after a tick
IndexedPaths == {d.path : d \in documents}
PathsOnDisk == {p \in Paths : files[p] # NoFile}

\* No file has changed since watch_once took its snapshot: the files are
\* those of the snapshot and each was last written at an earlier reading of
\* the clock (the clock stands still while watch_once runs).
UnchangedDuringTick ==
    /\ Snapshot(files, mtimes) = watch.new
    /\ \A p \in PathsOnDisk : mtimes[p] < watch.queued_at

\* C39: when watch_once has drained, no event has failed and no file has
\* changed since its snapshot, the indexed paths are the files on disk; also
\* at the first tick after a restart before which files were deleted.
TickLeavesIndexEqualToDisk ==
    (/\ watch.running /\ pc = "returned"
     /\ \A i \in EventIds(events) : events[i].status # "failed"
     /\ UnchangedDuringTick)
        => IndexedPaths = PathsOnDisk

\* ------------------------------------------ claims on concurrent starts
\* C40: when no start_background is running, every process a call has
\* spawned and that is alive is the one the pid file names: two calls do
\* not leave two spawned processes of which the pid file records one.
OneDaemonPerPidFile ==
    (\A c \in Callers : CallerStates[c].pc \in {"idle", "returned"})
        => daemon.alive \subseteq {daemon.pid_file}
====
